---------------------------- MODULE Spec2Model ----------------------------
(***************************************************************************)
(* A model of the tick-api client library: the process-wide configuration  *)
(* cell (api/util.ts), the facade TickClient with its constructor          *)
(* validation and its withConfig wrapper (client.ts), and the resource     *)
(* functions of api/clients.ts, api/projects.ts, api/tasks.ts and of the   *)
(* entries and users modules.                                              *)
(*                                                                         *)
(* JavaScript strings are sequences of text pieces, so concatenation is \o *)
(* and trimming removes whitespace pieces; a JavaScript value is a record  *)
(* [t |-> its typeof, v |-> its text].  Objects that can be referenced     *)
(* from two places (the caller's configuration object, the facade's own    *)
(* copy) live in variables and are named by references.                    *)
(***************************************************************************)
EXTENDS Integers, Sequences, FiniteSets, TLC

VARIABLES
    inputObj,      \* per instance: the caller's object given to `new TickClient`
    ownCfg,        \* per instance: the object built at client.ts:13-17
    clients,       \* per instance: the reference held in this.config
    ctorError,     \* per instance: the message its `new TickClient` threw, if any
    given,         \* per instance: the three values its constructor was given
    globalConfig,  \* util.ts:10, a reference or Null
    calls          \* the asynchronous invocations, one record per slot

vars == <<inputObj, ownCfg, clients, ctorError, given, globalConfig, calls>>

----------------------------------------------------------------------------
(* Bounds *)

\* the number of invocations that can be in flight at the same time
MaxInFlight == 2

Slots == 1..MaxInFlight

Inst == {"A", "B"}

----------------------------------------------------------------------------
(* JavaScript values *)

Undefined == [t |-> "undefined", v |-> <<>>]
JsNull == [t |-> "null", v |-> <<>>]
Str(s) == [t |-> "string", v |-> s]
Num(s) == [t |-> "number", v |-> s]
Bool(s) == [t |-> "boolean", v |-> s]

WhiteSpace == {" ", "\t", "\n"}

\* !x
Falsy(x) ==
    \/ x.t \in {"undefined", "null"}
    \/ x.t = "number" /\ x.v \in {<<"0">>, <<"NaN">>}
    \/ x.t = "boolean" /\ x.v = <<"false">>
    \/ x.t = "string" /\ x.v = <<>>

RECURSIVE TrimStart(_)
TrimStart(s) ==
    IF s # <<>> /\ Head(s) \in WhiteSpace THEN TrimStart(Tail(s)) ELSE s

RECURSIVE TrimEnd(_)
TrimEnd(s) ==
    IF s # <<>> /\ s[Len(s)] \in WhiteSpace
    THEN TrimEnd(SubSeq(s, 1, Len(s) - 1))
    ELSE s

\* String.prototype.trim
Trim(s) == TrimEnd(TrimStart(s))

\* Array.prototype.join
RECURSIVE Join(_, _)
Join(parts, sep) ==
    IF parts = <<>> THEN <<>>
    ELSE IF Len(parts) = 1 THEN parts[1]
    ELSE parts[1] \o sep \o Join(Tail(parts), sep)

\* String(x)
JsString(x) ==
    IF x.t = "null" THEN <<"null">>
    ELSE IF x.t = "undefined" THEN <<"undefined">>
    ELSE x.v

\* the serialisation of URLSearchParams: a character outside its safe set
\* is percent-encoded, a space becomes "+"
RECURSIVE UrlEncode(_)
UrlEncode(s) ==
    IF s = <<>> THEN <<>>
    ELSE <<CASE Head(s) = ":" -> "%3A"
             [] Head(s) = " " -> "+"
             [] Head(s) = "&" -> "%26"
             [] Head(s) = "=" -> "%3D"
             [] OTHER -> Head(s)>> \o UrlEncode(Tail(s))

\* a property read: a missing property reads as undefined
Get(o, f) == IF f \in DOMAIN o THEN o[f] ELSE Undefined

----------------------------------------------------------------------------
(* api/util.ts *)

BASE_URL == <<"https://www.tickspot.com">>
API_VERSION == <<"v2">>

ConfigFields == <<"subscriptionId", "apiToken", "userAgent">>

Null == <<"null">>
NoClient == <<"none">>
NoObj == [k \in {} |-> Undefined]
OwnRef(i) == <<"own", i>>
InputRef(i) == <<"input", i>>
ManualRef == <<"manual">>

\* a configuration the application hands to setGlobalConfig itself
ManualCfg ==
    [subscriptionId |-> Str(<<"m">>), apiToken |-> Str(<<"tm">>),
     userAgent |-> Str(<<"um">>)]

\* the object a reference names, in a given heap
DerefIn(r, inp, own) ==
    IF r[1] = "own" THEN own[r[2]]
    ELSE IF r[1] = "input" THEN inp[r[2]]
    ELSE ManualCfg

Deref(r) == DerefIn(r, inputObj, ownCfg)

ConfigErrorMsg ==
    <<"Global configuration is not set. Please call setGlobalConfig() first.">>

\* what a call gives its caller: a value [kind, items, text] or a message
NoValue == [kind |-> "none", items |-> <<>>, text |-> <<>>]
TextVal(s) == [kind |-> "text", items |-> <<>>, text |-> s]
ObjVal(o) == [kind |-> "object", items |-> <<o>>, text |-> <<>>]
ArrayVal(os) == [kind |-> "array", items |-> os, text |-> <<>>]
UndefinedVal == [kind |-> "undefined", items |-> <<>>, text |-> <<>>]

Thrown(m) == [ok |-> FALSE, msg |-> m, value |-> NoValue]
Returned(x) == [ok |-> TRUE, msg |-> <<>>, value |-> x]
NoOutcome == [ok |-> FALSE, msg |-> <<>>, value |-> NoValue]

NoHeaders == [Authorization |-> <<>>, UserAgent |-> <<>>, ContentType |-> <<>>]

\* createHeaders that sets the content type whatever its argument
createHeadersAlwaysContentType(cfg, includeContentType) ==
    IF cfg = Null THEN Thrown(ConfigErrorMsg)
    ELSE Returned(ObjVal(
        [Authorization |-> <<"Token token=">> \o Get(Deref(cfg), "apiToken").v,
         UserAgent |-> Get(Deref(cfg), "userAgent").v,
         ContentType |-> <<"application/json; charset=utf-8">>]))

\* createHeaders: the header object, or the error thrown
createHeaders(cfg, includeContentType) ==
    IF cfg = Null THEN Thrown(ConfigErrorMsg)
    ELSE Returned(ObjVal(
        [Authorization |-> <<"Token token=">> \o Get(Deref(cfg), "apiToken").v,
         UserAgent |-> Get(Deref(cfg), "userAgent").v,
         ContentType |-> IF includeContentType
                         THEN <<"application/json; charset=utf-8">>
                         ELSE <<>>]))

\* createUrl without its check: the property read of null throws
createUrlUnchecked(cfg, path) ==
    IF cfg = Null
    THEN Thrown(<<"Cannot read properties of null (reading 'subscriptionId')">>)
    ELSE Returned(TextVal(
        BASE_URL \o <<"/">> \o Get(Deref(cfg), "subscriptionId").v
        \o <<"/api/">> \o API_VERSION \o <<"/">> \o path))

\* createUrl with the version ahead of the subscription id
createUrlVersionFirst(cfg, path) ==
    IF cfg = Null THEN Thrown(ConfigErrorMsg)
    ELSE Returned(TextVal(
        BASE_URL \o <<"/">> \o API_VERSION \o <<"/api/">>
        \o Get(Deref(cfg), "subscriptionId").v \o <<"/">> \o path))

\* createUrl: the URL, or the error thrown
createUrl(cfg, path) ==
    IF cfg = Null THEN Thrown(ConfigErrorMsg)
    ELSE Returned(TextVal(
        BASE_URL \o <<"/">> \o Get(Deref(cfg), "subscriptionId").v
        \o <<"/api/">> \o API_VERSION \o <<"/">> \o path))

----------------------------------------------------------------------------
(* client.ts: the constructor *)

FieldMsg(f) == <<f, " is required and must be a non-empty string">>

\* the test without its trim
FieldInvalidNoTrim(x) ==
    Falsy(x) \/ x.t # "string"

\* the test of client.ts:23, 27 and 31 on one field
FieldInvalid(x) ==
    Falsy(x) \/ x.t # "string" \/ Trim(x.v) = <<>>

\* validation that stops at the first bad field
ValidateErrorsFailFast(config) ==
    IF FieldInvalid(Get(config, "subscriptionId"))
    THEN <<FieldMsg("subscriptionId")>>
    ELSE IF FieldInvalid(Get(config, "apiToken"))
    THEN <<FieldMsg("apiToken")>>
    ELSE IF FieldInvalid(Get(config, "userAgent"))
    THEN <<FieldMsg("userAgent")>>
    ELSE <<>>

\* validateConfig: the list `errors`
ValidateErrors(config) ==
    LET e(k) == IF FieldInvalid(Get(config, ConfigFields[k]))
                THEN <<FieldMsg(ConfigFields[k])>> ELSE <<>>
    IN  e(1) \o e(2) \o e(3)

\* validation that is skipped while a configuration is active
ValidateConfigUnlessActive(config) ==
    IF globalConfig = Null /\ Len(ValidateErrors(config)) > 0
    THEN <<"Invalid TickClient configuration: ">>
         \o Join(ValidateErrors(config), <<", ">>)
    ELSE <<>>

\* validateConfig: the message thrown, or <<>> when it returns
ValidateConfig(config) ==
    IF Len(ValidateErrors(config)) > 0
    THEN <<"Invalid TickClient configuration: ">>
         \o Join(ValidateErrors(config), <<", ">>)
    ELSE <<>>

\* the object literal of client.ts:13-17
CopyConfig(config) ==
    [subscriptionId |-> Get(config, "subscriptionId"),
     apiToken |-> Get(config, "apiToken"),
     userAgent |-> Get(config, "userAgent")]

\* the constructor keeps the caller's object
StoredInputRef(i) == InputRef(i)

\* what the constructor assigns to this.config
StoredRef(i) == OwnRef(i)

----------------------------------------------------------------------------
(* The zod shapes.  A shape maps each field to [t, opt, nullable]; a nested *)
(* object is a value of type "object".                                      *)

Req(t) == [t |-> t, opt |-> FALSE, nullable |-> FALSE]
Opt(t) == [t |-> t, opt |-> TRUE, nullable |-> FALSE]
Nullable(t) == [t |-> t, opt |-> FALSE, nullable |-> TRUE]

Client ==
    [id |-> Req("number"), name |-> Req("string"), archive |-> Req("boolean"),
     url |-> Req("string"), updated_at |-> Req("string")]

ClientWithProjects ==
    [id |-> Req("number"), name |-> Req("string"), archive |-> Req("boolean"),
     url |-> Req("string"), updated_at |-> Req("string"),
     projects |-> Req("object")]

Project ==
    [id |-> Req("number"), name |-> Req("string"), budget |-> Req("number"),
     date_closed |-> Nullable("string"), notifications |-> Req("boolean"),
     billable |-> Req("boolean"), recurring |-> Req("boolean"),
     client_id |-> Req("number"), owner_id |-> Req("number"),
     url |-> Req("string"), created_at |-> Req("string"),
     updated_at |-> Req("string")]

ProjectWithDetails ==
    [id |-> Req("number"), name |-> Req("string"), budget |-> Req("number"),
     date_closed |-> Nullable("string"), notifications |-> Req("boolean"),
     billable |-> Req("boolean"), recurring |-> Req("boolean"),
     client_id |-> Req("number"), owner_id |-> Req("number"),
     url |-> Req("string"), created_at |-> Req("string"),
     updated_at |-> Req("string"), total_hours |-> Req("number"),
     tasks |-> Req("object"), client |-> Req("object")]

CreateProject ==
    [name |-> Req("string"), budget |-> Req("number"),
     notifications |-> Req("boolean"), billable |-> Req("boolean"),
     recurring |-> Req("boolean"), client_id |-> Req("number"),
     owner_id |-> Req("number")]

Task ==
    [id |-> Req("string"), name |-> Req("string"), budget |-> Req("number"),
     position |-> Req("number"), project_id |-> Req("number"),
     date_closed |-> Nullable("string"), billable |-> Req("boolean"),
     url |-> Req("string"), created_at |-> Req("string"),
     updated_at |-> Req("string")]

TaskWithDetails ==
    [id |-> Req("string"), name |-> Req("string"), budget |-> Req("number"),
     position |-> Req("number"), project_id |-> Req("number"),
     date_closed |-> Nullable("string"), billable |-> Req("boolean"),
     url |-> Req("string"), created_at |-> Req("string"),
     updated_at |-> Req("string"), total_hours |-> Req("number"),
     entries |-> Req("object"), project |-> Req("object")]

Entry ==
    [id |-> Req("string"), date |-> Req("string"), hours |-> Req("number"),
     notes |-> Req("string"), task_id |-> Req("number"),
     user_id |-> Req("number"), url |-> Req("string"),
     created_at |-> Req("string"), updated_at |-> Req("string")]

EntryWithTask ==
    [id |-> Req("string"), date |-> Req("string"), hours |-> Req("number"),
     notes |-> Req("string"), task_id |-> Req("number"),
     user_id |-> Req("number"), url |-> Req("string"),
     created_at |-> Req("string"), updated_at |-> Req("string"),
     task |-> Req("object")]

User ==
    [id |-> Req("number"), first_name |-> Req("string"),
     last_name |-> Req("string"), email |-> Req("string"),
     timezone |-> Req("string"), updated_at |-> Req("string")]

\* what a delete operation expects of the body: nothing
NoShape == [k \in {} |-> Req("undefined")]

\* a declaration that coerces: a number passes for a string and a string
\* for a number
FieldOkCoercing(spec, x) ==
    \/ x.t = spec.t
    \/ spec.t \in {"string", "number"} /\ x.t \in {"string", "number"}
    \/ spec.opt /\ x.t = "undefined"
    \/ spec.nullable /\ x.t = "null"

\* one field against its declaration
FieldOk(spec, x) ==
    \/ x.t = spec.t
    \/ spec.opt /\ x.t = "undefined"
    \/ spec.nullable /\ x.t = "null"

\* z.object(...).parse on an object: the fields of the shape, or a failure
Conforms(shape, obj) == \A f \in DOMAIN shape : FieldOk(shape[f], Get(obj, f))

Strip(shape, obj) == [f \in (DOMAIN shape) \cap (DOMAIN obj) |-> obj[f]]

----------------------------------------------------------------------------
(* Requests, responses *)

NoBody == [present |-> FALSE, key |-> "", params |-> NoObj]
Plain(params) == [present |-> TRUE, key |-> "", params |-> params]
Wrapped(key, params) == [present |-> TRUE, key |-> key, params |-> params]

StatusText(status) ==
    CASE status = 200 -> <<"OK">>
      [] status = 204 -> <<"No Content">>
      [] status = 403 -> <<"Forbidden">>
      [] status = 404 -> <<"Not Found">>
      [] status = 406 -> <<"Not Acceptable">>
      [] OTHER -> <<"Internal Server Error">>

StatusStr(status) ==
    CASE status = 200 -> <<"200">>
      [] status = 204 -> <<"204">>
      [] status = 403 -> <<"403">>
      [] status = 404 -> <<"404">>
      [] status = 406 -> <<"406">>
      [] OTHER -> <<"500">>

\* Response.ok
ResponseOk(status) == status >= 200 /\ status <= 299

\* the description of one resource function: what it checks before the
\* request, the request it makes, how it maps the status, what it parses
Fn(pre, method, path, ct, body, e403, e406, fail, list, shape) ==
    [pre |-> pre, method |-> method, path |-> path, ct |-> ct, body |-> body,
     e403 |-> e403, e406 |-> e406, fail |-> fail, list |-> list,
     shape |-> shape]

----------------------------------------------------------------------------
(* The resource functions.  `a` is the argument record [id, params].        *)

None == <<>>

\* api/clients.ts
getClients(a) ==
    Fn(None, "GET", <<"clients.json">>, FALSE, NoBody,
       None, None, <<"Failed to fetch clients">>, TRUE, Client)

getAllClients(a) ==
    Fn(None, "GET", <<"clients/all.json">>, FALSE, NoBody,
       None, None, <<"Failed to fetch all clients">>, TRUE, Client)

getClient(a) ==
    Fn(None, "GET", <<"clients/">> \o a.id.v \o <<".json">>, FALSE, NoBody,
       None, None, <<"Failed to fetch client with ID ">> \o a.id.v,
       FALSE, ClientWithProjects)

\* createClient without its test of status 403
createClientNo403(a) ==
    Fn(None, "POST", <<"clients.json">>, TRUE, Plain(a.params),
       None, None, <<"Failed to create client">>, FALSE, Client)

createClient(a) ==
    Fn(None, "POST", <<"clients.json">>, TRUE, Plain(a.params),
       <<"Forbidden: Only ", "administrators", " can create clients">>, None,
       <<"Failed to create client">>, FALSE, Client)

\* updateClient sending its change with the verb of a creation
updateClientWithPost(a) ==
    Fn(None, "POST", <<"clients/">> \o a.id.v \o <<".json">>, TRUE,
       Plain(a.params),
       <<"Forbidden: Only ", "administrators", " can update clients">>, None,
       <<"Failed to update client with ID ">> \o a.id.v, FALSE, Client)

updateClient(a) ==
    Fn(None, "PUT", <<"clients/">> \o a.id.v \o <<".json">>, TRUE,
       Plain(a.params),
       <<"Forbidden: Only ", "administrators", " can update clients">>, None,
       <<"Failed to update client with ID ">> \o a.id.v, FALSE, Client)

\* deleteClient without its test of status 406
deleteClientNo406(a) ==
    Fn(None, "DELETE", <<"clients/">> \o a.id.v \o <<".json">>, FALSE, NoBody,
       <<"Forbidden: Only ", "administrators", " can delete clients">>, None,
       <<"Failed to delete client with ID ">> \o a.id.v, FALSE, NoShape)

deleteClient(a) ==
    Fn(None, "DELETE", <<"clients/">> \o a.id.v \o <<".json">>, FALSE, NoBody,
       <<"Forbidden: Only ", "administrators", " can delete clients">>,
       <<"Client cannot be deleted because it still has ", "associated projects">>,
       <<"Failed to delete client with ID ">> \o a.id.v, FALSE, NoShape)

\* api/projects.ts: the query string of the two listings
PageQuery(params) ==
    IF ~Falsy(Get(params, "page"))
    THEN <<"page", "=">> \o UrlEncode(JsString(Get(params, "page")))
    ELSE <<>>

getProjects(a) ==
    Fn(None, "GET",
       IF PageQuery(a.params) # <<>>
       THEN <<"projects.json", "?">> \o PageQuery(a.params)
       ELSE <<"projects.json">>,
       FALSE, NoBody, None, None, <<"Failed to fetch projects">>, TRUE, Project)

getClosedProjects(a) ==
    Fn(None, "GET",
       IF PageQuery(a.params) # <<>>
       THEN <<"projects/closed.json", "?">> \o PageQuery(a.params)
       ELSE <<"projects/closed.json">>,
       FALSE, NoBody, None, None, <<"Failed to fetch closed projects">>, TRUE,
       Project)

getProject(a) ==
    Fn(None, "GET", <<"projects/">> \o a.id.v \o <<".json">>, FALSE, NoBody,
       None, None, <<"Failed to fetch project with ID ">> \o a.id.v,
       FALSE, ProjectWithDetails)

createProject(a) ==
    Fn(None, "POST", <<"projects.json">>, TRUE, Wrapped("project", a.params),
       <<"Forbidden: Only ", "administrators", " can create projects">>, None,
       <<"Failed to create project">>, FALSE, Project)

updateProject(a) ==
    Fn(None, "PUT", <<"projects/">> \o a.id.v \o <<".json">>, TRUE,
       Wrapped("project", a.params),
       <<"Forbidden: Only ", "administrators", " can update projects">>, None,
       <<"Failed to update project with ID ">> \o a.id.v, FALSE, Project)

\* deleteProject with a test of status 406 like deleteClient's
deleteProjectWith406(a) ==
    Fn(None, "DELETE", <<"projects/">> \o a.id.v \o <<".json">>, FALSE, NoBody,
       <<"Forbidden: Only ", "administrators", " can delete projects">>,
       <<"Project cannot be deleted because it still has ", "associated projects">>,
       <<"Failed to delete project with ID ">> \o a.id.v, FALSE, NoShape)

deleteProject(a) ==
    Fn(None, "DELETE", <<"projects/">> \o a.id.v \o <<".json">>, FALSE, NoBody,
       <<"Forbidden: Only ", "administrators", " can delete projects">>, None,
       <<"Failed to delete project with ID ">> \o a.id.v, FALSE, NoShape)

\* api/tasks.ts
getProjectTasks(a) ==
    Fn(None, "GET", <<"projects/">> \o a.id.v \o <<"/tasks.json">>, FALSE,
       NoBody, None, None,
       <<"Failed to fetch tasks for project ">> \o a.id.v, TRUE, Task)

getTasks(a) ==
    Fn(None, "GET", <<"tasks.json">>, FALSE, NoBody,
       None, None, <<"Failed to fetch tasks">>, TRUE, Task)

getProjectClosedTasks(a) ==
    Fn(None, "GET", <<"projects/">> \o a.id.v \o <<"/tasks/closed.json">>,
       FALSE, NoBody, None, None,
       <<"Failed to fetch closed tasks for project ">> \o a.id.v, TRUE, Task)

getClosedTasks(a) ==
    Fn(None, "GET", <<"tasks/closed.json">>, FALSE, NoBody,
       None, None, <<"Failed to fetch closed tasks">>, TRUE, Task)

getTask(a) ==
    Fn(None, "GET", <<"tasks/">> \o a.id.v \o <<".json">>, FALSE, NoBody,
       None, None, <<"Failed to fetch task with ID ">> \o a.id.v,
       FALSE, TaskWithDetails)

createTask(a) ==
    Fn(None, "POST", <<"tasks.json">>, TRUE, Plain(a.params),
       <<"Failed to create task: Only ", "administrators", " can create tasks">>, None,
       <<"Failed to create task">>, FALSE, Task)

updateTask(a) ==
    Fn(None, "PUT", <<"tasks/">> \o a.id.v \o <<".json">>, TRUE,
       Plain(a.params),
       <<"Failed to update task: Only ", "administrators", " can update tasks">>, None,
       <<"Failed to update task with ID ">> \o a.id.v, FALSE, Task)

deleteTask(a) ==
    Fn(None, "DELETE", <<"tasks/">> \o a.id.v \o <<".json">>, FALSE, NoBody,
       <<"Failed to delete task: Only ", "administrators", " can delete tasks">>,
       <<"Failed to delete task: Only tasks ", "without any entries",
         " can be deleted">>,
       <<"Failed to delete task with ID ">> \o a.id.v, FALSE, NoShape)

\* the check with its first two tests joined the wrong way
EntriesPreconditionAnd(params) ==
    IF (Falsy(Get(params, "start_date")) /\ Falsy(Get(params, "end_date")))
       /\ Falsy(Get(params, "updated_at"))
    THEN <<"Either start_date and end_date OR updated_at must be provided">>
    ELSE None

\* the check tests the three fields against undefined only
EntriesPreconditionDefinedOnly(params) ==
    IF (Get(params, "start_date") = Undefined
        \/ Get(params, "end_date") = Undefined)
       /\ Get(params, "updated_at") = Undefined
    THEN <<"Either start_date and end_date OR updated_at must be provided">>
    ELSE None

\* the entries module: the check each of the four listings starts with
EntriesPrecondition(params) ==
    IF (Falsy(Get(params, "start_date")) \/ Falsy(Get(params, "end_date")))
       /\ Falsy(Get(params, "updated_at"))
    THEN <<"Either start_date and end_date OR updated_at must be provided">>
    ELSE None

\* the fields of a filter, in the order Object.entries visits them
GetEntriesKeys ==
    <<"start_date", "end_date", "updated_at", "billable", "project_id",
      "task_id", "user_id", "billed">>

\* the loop over Object.entries(params) and URLSearchParams.toString
RECURSIVE QueryPairs(_, _)
QueryPairs(params, keys) ==
    IF keys = <<>> THEN <<>>
    ELSE (IF Head(keys) \in DOMAIN params /\ params[Head(keys)] # Undefined
          THEN << <<Head(keys), "=">>
                  \o UrlEncode(JsString(params[Head(keys)])) >>
          ELSE <<>>) \o QueryPairs(params, Tail(keys))

QueryString(params) == Join(QueryPairs(params, GetEntriesKeys), <<"&">>)

getEntries(a) ==
    Fn(EntriesPrecondition(a.params), "GET",
       <<"entries.json", "?">> \o QueryString(a.params), FALSE, NoBody,
       None, None, <<"Failed to fetch entries">>, TRUE, Entry)

getUserEntries(a) ==
    Fn(EntriesPrecondition(a.params), "GET",
       <<"users/">> \o a.id.v \o <<"/entries.json", "?">>
       \o QueryString(a.params), FALSE, NoBody,
       None, None, <<"Failed to fetch entries for user ">> \o a.id.v,
       TRUE, Entry)

getProjectEntries(a) ==
    Fn(EntriesPrecondition(a.params), "GET",
       <<"projects/">> \o a.id.v \o <<"/entries.json", "?">>
       \o QueryString(a.params), FALSE, NoBody,
       None, None, <<"Failed to fetch entries for project ">> \o a.id.v,
       TRUE, Entry)

getTaskEntries(a) ==
    Fn(EntriesPrecondition(a.params), "GET",
       <<"tasks/">> \o a.id.v \o <<"/entries.json", "?">>
       \o QueryString(a.params), FALSE, NoBody,
       None, None, <<"Failed to fetch entries for task ">> \o a.id.v,
       TRUE, Entry)

getEntry(a) ==
    Fn(None, "GET", <<"entries/">> \o a.id.v \o <<".json">>, FALSE, NoBody,
       None, None, <<"Failed to fetch entry with ID ">> \o a.id.v,
       FALSE, EntryWithTask)

createEntry(a) ==
    Fn(None, "POST", <<"entries.json">>, TRUE, Plain(a.params),
       None, None, <<"Failed to create entry">>, FALSE, Entry)

updateEntry(a) ==
    Fn(None, "PUT", <<"entries/">> \o a.id.v \o <<".json">>, TRUE,
       Plain(a.params), None, None,
       <<"Failed to update entry with ID ">> \o a.id.v, FALSE, Entry)

deleteEntry(a) ==
    Fn(None, "DELETE", <<"entries/">> \o a.id.v \o <<".json">>, FALSE, NoBody,
       None, None, <<"Failed to delete entry with ID ">> \o a.id.v,
       FALSE, NoShape)

\* the users module
getUsers(a) ==
    Fn(None, "GET", <<"users.json">>, FALSE, NoBody,
       None, None, <<"Failed to fetch users">>, TRUE, User)

getDeletedUsers(a) ==
    Fn(None, "GET", <<"users/deleted.json">>, FALSE, NoBody,
       <<"Forbidden: Only ", "administrators", " can access deleted users">>, None,
       <<"Failed to fetch deleted users">>, TRUE, User)

\* createUser sending the parameters themselves
createUserUnwrapped(a) ==
    Fn(None, "POST", <<"users.json">>, TRUE, Plain(a.params),
       <<"Forbidden: Only ", "administrators", " can create users">>, None,
       <<"Failed to create user">>, FALSE, User)

createUser(a) ==
    Fn(None, "POST", <<"users.json">>, TRUE, Wrapped("user", a.params),
       <<"Forbidden: Only ", "administrators", " can create users">>, None,
       <<"Failed to create user">>, FALSE, User)

EntryListOps ==
    {"getEntries", "getUserEntries", "getProjectEntries", "getTaskEntries"}

DeleteOps == {"deleteClient", "deleteProject", "deleteTask", "deleteEntry"}

Ops ==
    {"getUsers", "getDeletedUsers", "createUser",
     "getClients", "getAllClients", "getClient", "createClient",
     "updateClient", "deleteClient",
     "getProjects", "getClosedProjects", "getProject", "createProject",
     "updateProject", "deleteProject",
     "getTasks", "getProjectTasks", "getClosedTasks", "getProjectClosedTasks",
     "getTask", "createTask", "updateTask", "deleteTask",
     "getEntry", "createEntry", "updateEntry", "deleteEntry"}
    \cup EntryListOps

\* the function a facade method hands to withConfig (client.ts:51-177)
Resource(op, a) ==
    CASE op = "getUsers" -> getUsers(a)
      [] op = "getDeletedUsers" -> getDeletedUsers(a)
      [] op = "createUser" -> createUser(a)
      [] op = "getClients" -> getClients(a)
      [] op = "getAllClients" -> getAllClients(a)
      [] op = "getClient" -> getClient(a)
      [] op = "createClient" -> createClient(a)
      [] op = "updateClient" -> updateClient(a)
      [] op = "deleteClient" -> deleteClient(a)
      [] op = "getProjects" -> getProjects(a)
      [] op = "getClosedProjects" -> getClosedProjects(a)
      [] op = "getProject" -> getProject(a)
      [] op = "createProject" -> createProject(a)
      [] op = "updateProject" -> updateProject(a)
      [] op = "deleteProject" -> deleteProject(a)
      [] op = "getTasks" -> getTasks(a)
      [] op = "getProjectTasks" -> getProjectTasks(a)
      [] op = "getClosedTasks" -> getClosedTasks(a)
      [] op = "getProjectClosedTasks" -> getProjectClosedTasks(a)
      [] op = "getTask" -> getTask(a)
      [] op = "createTask" -> createTask(a)
      [] op = "updateTask" -> updateTask(a)
      [] op = "deleteTask" -> deleteTask(a)
      [] op = "getEntries" -> getEntries(a)
      [] op = "getUserEntries" -> getUserEntries(a)
      [] op = "getProjectEntries" -> getProjectEntries(a)
      [] op = "getTaskEntries" -> getTaskEntries(a)
      [] op = "getEntry" -> getEntry(a)
      [] op = "createEntry" -> createEntry(a)
      [] op = "updateEntry" -> updateEntry(a)
      [] OTHER -> deleteEntry(a)

----------------------------------------------------------------------------
(* One invocation of a resource function, step by step *)

NoReq == [method |-> "", url |-> <<>>, headers |-> NoHeaders, body |-> NoBody]
NoArgs == [id |-> Undefined, params |-> NoObj]
\* no response yet, no body read yet
NoResp == [failed |-> FALSE, status |-> 0]
NoJson == [kind |-> "none", items |-> <<>>]

\* the transport's own failure (fetch rejects)
FetchFailedMsg == <<"fetch failed">>
\* response.json() rejects
JsonFailedMsg == <<"Unexpected token in JSON">>
\* parse throws a ZodError
ZodErrorMsg == <<"ZodError">>

\* the headers are built from what the cell held when the facade method was
\* entered, the URL from what it holds in the function
StartHeadersEarly(op, a, cfg) ==
    LET fn == Resource(op, a)
        url == createUrl(cfg, fn.path)
        hdr == createHeaders(globalConfig, fn.ct)
    IN  IF fn.pre # None
        THEN [issued |-> FALSE, outcome |-> Thrown(fn.pre), req |-> NoReq]
        ELSE IF ~url.ok
        THEN [issued |-> FALSE, outcome |-> Thrown(url.msg), req |-> NoReq]
        ELSE IF ~hdr.ok
        THEN [issued |-> FALSE, outcome |-> Thrown(hdr.msg), req |-> NoReq]
        ELSE [issued |-> TRUE, outcome |-> NoOutcome,
              req |-> [method |-> fn.method, url |-> url.value.text,
                       headers |-> hdr.value.items[1], body |-> fn.body]]

\* the synchronous part, up to the call of fetch: the function's own check,
\* createUrl, then createHeaders in the argument of fetch
Start(op, a, cfg) ==
    LET fn == Resource(op, a)
        url == createUrl(cfg, fn.path)
        hdr == createHeaders(cfg, fn.ct)
    IN  IF fn.pre # None
        THEN [issued |-> FALSE, outcome |-> Thrown(fn.pre), req |-> NoReq]
        ELSE IF ~url.ok
        THEN [issued |-> FALSE, outcome |-> Thrown(url.msg), req |-> NoReq]
        ELSE IF ~hdr.ok
        THEN [issued |-> FALSE, outcome |-> Thrown(hdr.msg), req |-> NoReq]
        ELSE [issued |-> TRUE, outcome |-> NoOutcome,
              req |-> [method |-> fn.method, url |-> url.value.text,
                       headers |-> hdr.value.items[1], body |-> fn.body]]

\* every function, the deletions too, reads the body
ReadsBodyAlways(fn) == TRUE

\* a delete function returns after the status checks
ReadsBody(fn) == DOMAIN fn.shape # {}

\* the checks on the response; NoOutcome when the function goes on to
\* await response.json()
StatusCheck(op, a, resp) ==
    LET fn == Resource(op, a)
    IN  IF resp.failed THEN Thrown(FetchFailedMsg)
        ELSE IF resp.status = 403 /\ fn.e403 # None THEN Thrown(fn.e403)
        ELSE IF resp.status = 406 /\ fn.e406 # None THEN Thrown(fn.e406)
        ELSE IF ~ResponseOk(resp.status)
        THEN Thrown(fn.fail \o <<": ">> \o StatusStr(resp.status) \o <<" ">>
                    \o StatusText(resp.status))
        ELSE IF ReadsBody(fn) THEN NoOutcome
        ELSE Returned(UndefinedVal)

\* the body is returned as read, without the parse
ParseUnchecked(op, a, body) ==
    IF body.kind = "invalid" THEN Thrown(JsonFailedMsg)
    ELSE Returned([kind |-> body.kind, items |-> body.items, text |-> <<>>])

\* response.json() and the parse against the function's shape
Parse(op, a, body) ==
    LET fn == Resource(op, a)
    IN  IF body.kind = "invalid" THEN Thrown(JsonFailedMsg)
        ELSE IF fn.list
        THEN IF body.kind = "array"
                /\ \A k \in 1..Len(body.items) : Conforms(fn.shape, body.items[k])
             THEN Returned(ArrayVal(
                    [k \in 1..Len(body.items) |-> Strip(fn.shape, body.items[k])]))
             ELSE Thrown(ZodErrorMsg)
        ELSE IF body.kind = "object" /\ Conforms(fn.shape, body.items[1])
             THEN Returned(ObjVal(Strip(fn.shape, body.items[1])))
             ELSE Thrown(ZodErrorMsg)

----------------------------------------------------------------------------
(* client.ts: withConfig *)

\* client.ts:41
Capture(cur) == cur

\* the instance's configuration is installed only in an empty cell
ActivateIfUnset(cur, own) == IF cur = Null THEN own ELSE cur

\* client.ts:42
Activate(cur, own) == own

\* the restore follows the await instead of standing in a finally clause
ReleaseOnSuccess(orig, cur, outcome) == IF outcome.ok THEN orig ELSE cur

\* the cell is cleared instead of restored
ReleaseToNull(orig, cur, outcome) == Null

\* the finally clause is missing: the cell is left as it is
ReleaseNothing(orig, cur, outcome) == cur

\* client.ts:45-47: what the cell holds once the wrapped call has settled
Release(orig, cur, outcome) == orig

\* the wrapped function is called before the cell is set
withConfigSwapLate(cur, own, op, a) ==
    [orig |-> Capture(cur), active |-> Activate(cur, own),
     r |-> Start(op, a, cur)]

\* the cell is read for the later restore only after it has been set
withConfigCaptureLate(cur, own, op, a) ==
    [orig |-> Capture(Activate(cur, own)), active |-> Activate(cur, own),
     r |-> Start(op, a, Activate(cur, own))]

\* client.ts:41-44, up to the await: the captured value, the value the cell
\* is set to, and the wrapped function run under it up to its first await
withConfig(cur, own, op, a) ==
    [orig |-> Capture(cur), active |-> Activate(cur, own),
     r |-> Start(op, a, Activate(cur, own))]

----------------------------------------------------------------------------
(* The state *)

Direct == "direct"

NoPair == [st |-> "none", inst |-> Direct, pre |-> Null, slot |-> 0]

\* pre, alone, root and pair record the history the properties speak of:
\* the cell before the call began, whether the call ran undisturbed, whether
\* it began with no other facade call in flight, and the one call that was
\* in flight when this one began; resp and body are
\* the response the call received and the body it read
IdleCall ==
    [pc |-> "idle", inst |-> Direct, op |-> "none", args |-> NoArgs,
     orig |-> Null, req |-> NoReq, nfetch |-> 0, outcome |-> NoOutcome,
     pre |-> Null, alone |-> TRUE, root |-> FALSE, pair |-> NoPair,
     resp |-> NoResp, body |-> NoJson]

InFlight(c) == calls[c].pc \in {"fetch", "json", "returned"}
FacadeInFlight(c) == InFlight(c) /\ calls[c].inst # Direct
Busy(c) == calls[c].pc # "idle"

\* the lowest free slot
FreeSlot(c) == ~Busy(c) /\ \A d \in Slots : d < c => Busy(d)

\* another call began, or the application set the cell: no call that is
\* under way ran undisturbed
Disturbed(cs) ==
    [d \in Slots |->
        IF cs[d].pc = "idle" THEN cs[d]
        ELSE [cs[d] EXCEPT !.alone = FALSE, !.pair = NoPair]]

\* the call a new call overlaps with, when there is exactly one and it has
\* run undisturbed so far
PairAtBegin(c) ==
    LET others == {d \in Slots \ {c} : FacadeInFlight(d)}
    IN  IF \E d \in others : others = {d} /\ calls[d].alone
        THEN LET d == CHOOSE e \in others : TRUE
             IN  [st |-> "open", inst |-> calls[d].inst, pre |-> calls[d].pre,
                  slot |-> d]
        ELSE NoPair

\* `new TickClient(config)`: i names one evaluation of the expression
Construct(i, config) ==
    /\ clients[i] = NoClient
    /\ ctorError[i] = <<>>
    /\ ctorError' = [ctorError EXCEPT ![i] = ValidateConfig(config)]
    /\ inputObj' = [inputObj EXCEPT ![i] = config]
    /\ IF ValidateConfig(config) = <<>>
       THEN /\ ownCfg' = [ownCfg EXCEPT ![i] = CopyConfig(config)]
            /\ clients' = [clients EXCEPT ![i] = StoredRef(i)]
            /\ given' = [given EXCEPT ![i] = CopyConfig(config)]
       ELSE UNCHANGED <<ownCfg, clients, given>>
    /\ UNCHANGED <<globalConfig, calls>>

\* the caller changes a property of the object it gave the constructor
MutateInput(i, f, x) ==
    /\ clients[i] # NoClient
    /\ Get(inputObj[i], f) # x
    /\ inputObj' = [inputObj EXCEPT ![i] =
                      [k \in DOMAIN inputObj[i] \cup {f} |->
                          IF k = f THEN x ELSE inputObj[i][k]]]
    /\ UNCHANGED <<ownCfg, clients, ctorError, given, globalConfig, calls>>

\* the application calls setGlobalConfig itself
SetGlobalConfig(r) ==
    /\ globalConfig # r
    /\ globalConfig' = r
    /\ calls' = Disturbed(calls)
    /\ UNCHANGED <<inputObj, ownCfg, clients, ctorError, given>>

\* a facade method is called: withConfig up to its await, which includes the
\* resource function up to its first await
Begin(c, i, op, a) ==
    /\ FreeSlot(c)
    /\ clients[i] # NoClient
    /\ LET w == withConfig(globalConfig, clients[i], op, a)
           orig == w.orig
           r == w.r
       IN  /\ globalConfig' = w.active
           /\ calls' = [Disturbed(calls) EXCEPT ![c] =
                 [pc |-> IF r.issued THEN "fetch" ELSE "returned",
                  inst |-> i, op |-> op, args |-> a, orig |-> orig,
                  req |-> r.req, nfetch |-> IF r.issued THEN 1 ELSE 0,
                  outcome |-> r.outcome, pre |-> globalConfig,
                  alone |-> \A d \in Slots \ {c} : ~FacadeInFlight(d),
                  root |-> \A d \in Slots \ {c} : ~FacadeInFlight(d),
                  pair |-> PairAtBegin(c),
                  resp |-> NoResp, body |-> NoJson]]
    /\ UNCHANGED <<inputObj, ownCfg, clients, ctorError, given>>

\* a resource function is called without the facade
DirectCall(c, op, a) ==
    /\ FreeSlot(c)
    /\ LET r == Start(op, a, globalConfig)
       IN  calls' = [calls EXCEPT ![c] =
                 [pc |-> IF r.issued THEN "fetch" ELSE "returned",
                  inst |-> Direct, op |-> op, args |-> a, orig |-> Null,
                  req |-> r.req, nfetch |-> IF r.issued THEN 1 ELSE 0,
                  outcome |-> r.outcome, pre |-> globalConfig,
                  alone |-> TRUE, root |-> FALSE, pair |-> NoPair,
                  resp |-> NoResp, body |-> NoJson]]
    /\ UNCHANGED <<inputObj, ownCfg, clients, ctorError, given, globalConfig>>

\* createUrl or createHeaders is called without the facade
DirectHelper(c, h, path, ct) ==
    /\ FreeSlot(c)
    /\ calls' = [calls EXCEPT ![c] =
           [IdleCall EXCEPT
              !.pc = "returned", !.op = h, !.pre = globalConfig,
              !.outcome = IF h = "createUrl"
                          THEN createUrl(globalConfig, path)
                          ELSE createHeaders(globalConfig, ct)]]
    /\ UNCHANGED <<inputObj, ownCfg, clients, ctorError, given, globalConfig>>

\* the function calls fetch again after a status that is not a success
AfterFetchRetry(call, resp) ==
    LET o == StatusCheck(call.op, call.args, resp)
    IN  IF ~resp.failed /\ ~ResponseOk(resp.status) /\ call.nfetch < 2
        THEN [call EXCEPT !.nfetch = call.nfetch + 1, !.resp = resp]
        ELSE [call EXCEPT !.pc = IF o = NoOutcome THEN "json" ELSE "returned",
                          !.outcome = o, !.resp = resp]

\* the function reads the cell again after `await fetch(...)` and fails
\* when it finds it empty
AfterFetchRereadsConfig(call, resp) ==
    LET o == IF globalConfig = Null THEN Thrown(ConfigErrorMsg)
             ELSE StatusCheck(call.op, call.args, resp)
    IN  [call EXCEPT !.pc = IF o = NoOutcome THEN "json" ELSE "returned",
                     !.outcome = o, !.resp = resp]

\* the function after `await fetch(...)`: the status checks, then its next
\* await or its end; fetch is not called again
AfterFetch(call, resp) ==
    LET o == StatusCheck(call.op, call.args, resp)
    IN  [call EXCEPT !.pc = IF o = NoOutcome THEN "json" ELSE "returned",
                     !.outcome = o, !.resp = resp]

\* fetch settles and the function runs on to its next await or to its end
FetchSettle(c, resp) ==
    /\ calls[c].pc = "fetch"
    /\ calls' = [calls EXCEPT ![c] = AfterFetch(calls[c], resp)]
    /\ UNCHANGED <<inputObj, ownCfg, clients, ctorError, given, globalConfig>>

\* response.json() settles and the function parses the body
JsonSettle(c, body) ==
    /\ calls[c].pc = "json"
    /\ calls' = [calls EXCEPT
           ![c].pc = "returned",
           ![c].body = body,
           ![c].outcome = Parse(calls[c].op, calls[c].args, body)]
    /\ UNCHANGED <<inputObj, ownCfg, clients, ctorError, given, globalConfig>>

\* a wrapper that catches the failure of the wrapped call and resolves
RestoreSwallowing(c) ==
    /\ calls[c].pc = "returned"
    /\ calls[c].inst # Direct
    /\ globalConfig' = Release(calls[c].orig, globalConfig, calls[c].outcome)
    /\ calls' = [d \in Slots |->
           IF d = c
           THEN [calls[c] EXCEPT
                   !.pc = "settled",
                   !.outcome = IF calls[c].outcome.ok THEN calls[c].outcome
                               ELSE Returned(UndefinedVal)]
           ELSE IF InFlight(d) /\ calls[d].pair.st = "open"
                   /\ calls[d].pair.slot = c
           THEN [calls[d] EXCEPT !.pair.st = "firstSettled"]
           ELSE calls[d]]
    /\ UNCHANGED <<inputObj, ownCfg, clients, ctorError, given>>

\* the finally clause copies the fields of the captured configuration into
\* the object the cell refers to instead of resetting the cell
RestoreCopyingBack(c) ==
    /\ calls[c].pc = "returned"
    /\ calls[c].inst # Direct
    /\ IF calls[c].orig # Null /\ globalConfig # Null
          /\ globalConfig[1] = "own"
       THEN ownCfg' = [ownCfg EXCEPT ![globalConfig[2]] = Deref(calls[c].orig)]
       ELSE ownCfg' = ownCfg
    /\ calls' = [d \in Slots |->
           IF d = c THEN [calls[c] EXCEPT !.pc = "settled"]
           ELSE IF InFlight(d) /\ calls[d].pair.st = "open"
                   /\ calls[d].pair.slot = c
           THEN [calls[d] EXCEPT !.pair.st = "firstSettled"]
           ELSE calls[d]]
    /\ UNCHANGED <<inputObj, clients, ctorError, given, globalConfig>>

\* withConfig resumes after its await: the finally clause, then the facade
\* method's promise settles
Restore(c) ==
    /\ calls[c].pc = "returned"
    /\ calls[c].inst # Direct
    /\ globalConfig' = Release(calls[c].orig, globalConfig, calls[c].outcome)
    /\ calls' = [d \in Slots |->
           IF d = c THEN [calls[c] EXCEPT !.pc = "settled"]
           ELSE IF InFlight(d) /\ calls[d].pair.st = "open"
                   /\ calls[d].pair.slot = c
           THEN [calls[d] EXCEPT !.pair.st = "firstSettled"]
           ELSE calls[d]]
    /\ UNCHANGED <<inputObj, ownCfg, clients, ctorError, given>>

\* the caller's continuation runs with the result or the error
Observe(c) ==
    /\ \/ calls[c].pc = "settled"
       \/ calls[c].pc = "returned" /\ calls[c].inst = Direct
    /\ calls' = [calls EXCEPT ![c] = IdleCall]
    /\ UNCHANGED <<inputObj, ownCfg, clients, ctorError, given, globalConfig>>

----------------------------------------------------------------------------
(* The inputs *)

NumId == Num(<<"42">>)
StrId == Str(<<"42">>)

NumIdOps ==
    {"getClient", "updateClient", "deleteClient", "getProject",
     "updateProject", "deleteProject", "getProjectTasks",
     "getProjectClosedTasks", "getUserEntries", "getProjectEntries",
     "getTaskEntries"}

StrIdOps ==
    {"getTask", "updateTask", "deleteTask", "getEntry", "updateEntry",
     "deleteEntry"}

DateVals == {Undefined, Str(<<>>), Str(<<"2025-01-01">>)}

Filters ==
    [start_date : DateVals, end_date : DateVals, updated_at : DateVals,
     billable : {Undefined}]
    \cup [start_date : {Str(<<"2025-01-01">>)}, end_date : {Str(<<"2025-01-31">>)},
          updated_at : {Undefined}, billable : {Bool(<<"false">>)}]
    \cup {[start_date |-> Undefined, end_date |-> Undefined,
           updated_at |-> Str(<<"2025-01-01T00", ":", "00">>),
           billable |-> Undefined, project_id |-> Num(<<"0">>)]}

ProjectParams ==
    [name |-> Str(<<"P">>), budget |-> Num(<<"10">>),
     notifications |-> Bool(<<"false">>), billable |-> Bool(<<"true">>),
     recurring |-> Bool(<<"false">>), client_id |-> Num(<<"1">>),
     owner_id |-> Num(<<"2">>)]

Without(o, f) == [k \in DOMAIN o \ {f} |-> o[k]]

With(o, f, x) == [k \in DOMAIN o \cup {f} |-> IF k = f THEN x ELSE o[k]]

ParamsFor(op) ==
    CASE op \in EntryListOps -> Filters
      [] op \in {"getProjects", "getClosedProjects"} ->
            {NoObj, [page |-> Num(<<"0">>)], [page |-> Num(<<"2">>)]}
      [] op = "createProject" ->
            {ProjectParams, Without(ProjectParams, "owner_id"),
             With(ProjectParams, "owner_id", Str(<<"2">>))}
      [] op = "updateProject" -> {[name |-> Str(<<"P">>)]}
      [] op \in {"createClient", "updateClient"} -> {[name |-> Str(<<"Acme">>)]}
      [] op = "createTask" ->
            {[name |-> Str(<<"T">>), budget |-> Num(<<"1">>),
              project_id |-> Num(<<"1">>), billable |-> Bool(<<"true">>)]}
      [] op = "updateTask" -> {[name |-> Str(<<"T">>)]}
      [] op = "createEntry" ->
            {[date |-> Str(<<"2025-06-13">>), hours |-> Num(<<"8">>),
              notes |-> Str(<<"n">>), task_id |-> Num(<<"123">>)]}
      [] op = "updateEntry" -> {[hours |-> Num(<<"4">>)]}
      [] op = "createUser" ->
            {[first_name |-> Str(<<"F">>), last_name |-> Str(<<"L">>),
              email |-> Str(<<"f@example.com">>)]}
      [] OTHER -> {NoObj}

ArgsFor(op) ==
    [id : IF op \in NumIdOps THEN {NumId}
          ELSE IF op \in StrIdOps THEN {StrId} ELSE {Undefined},
     params : ParamsFor(op)]

\* what the transport can answer
Responses ==
    {[failed |-> TRUE, status |-> 0]}
    \cup [failed : {FALSE}, status : {200, 204, 403, 404, 406, 500}]

\* a value of each type
Example(t) ==
    CASE t = "number" -> Num(<<"42">>)
      [] t = "string" -> Str(<<"42">>)
      [] t = "boolean" -> Bool(<<"false">>)
      [] OTHER -> [t |-> "object", v |-> <<"{}">>]

GoodItem(shape) == [f \in DOMAIN shape |-> Example(shape[f].t)]

OtherIdType(shape) == IF shape["id"].t = "number" THEN "string" ELSE "number"

\* the objects a response can carry where the shape is expected: the object
\* of the shape, with an id of the other type, with a field missing, with a
\* field the shape does not name
Items(shape) ==
    {GoodItem(shape),
     With(GoodItem(shape), "id", Example(OtherIdType(shape))),
     Without(GoodItem(shape), "updated_at"),
     With(GoodItem(shape), "extra", Str(<<"x">>))}

Bodies(op, a) ==
    {[kind |-> "invalid", items |-> <<>>], [kind |-> "array", items |-> <<>>]}
    \cup [kind : {"array", "object"},
          items : {<<o>> : o \in Items(Resource(op, a).shape)}]

\* the configurations of the two facades
InputOf(i) ==
    IF i = "A"
    THEN [subscriptionId |-> Str(<<"acme">>), apiToken |-> Str(<<"tok">>),
          userAgent |-> Str(<<"App/1.0">>)]
    ELSE [subscriptionId |-> Str(<<"b">>), apiToken |-> Str(<<"tb">>),
          userAgent |-> Str(<<"ub">>)]

----------------------------------------------------------------------------
(* Sequential use: one invocation at a time, every operation *)

AllIdle == \A c \in Slots : ~Busy(c)

Init ==
    /\ inputObj = [i \in Inst |-> InputOf(i)]
    /\ ownCfg = [i \in Inst |-> CopyConfig(InputOf(i))]
    /\ clients = [i \in Inst |-> StoredRef(i)]
    /\ given = [i \in Inst |-> CopyConfig(InputOf(i))]
    /\ ctorError = [i \in Inst |-> ValidateConfig(InputOf(i))]
    /\ globalConfig = Null
    /\ calls = [c \in Slots |-> IdleCall]

Next ==
    \/ \E r \in {Null, ManualRef} : SetGlobalConfig(r)
    \/ /\ AllIdle
       /\ \E c \in Slots, i \in Inst, op \in Ops :
             \E a \in ArgsFor(op) : Begin(c, i, op, a)
    \/ /\ AllIdle
       /\ \E c \in Slots, op \in Ops :
             \E a \in ArgsFor(op) : DirectCall(c, op, a)
    \/ /\ AllIdle
       /\ \E c \in Slots, h \in {"createUrl", "createHeaders"}, ct \in BOOLEAN :
             DirectHelper(c, h, <<"clients.json">>, ct)
    \/ \E c \in Slots, resp \in Responses : FetchSettle(c, resp)
    \/ \E c \in Slots :
          /\ calls[c].pc = "json"
          /\ \E body \in Bodies(calls[c].op, calls[c].args) : JsonSettle(c, body)
    \/ \E c \in Slots : Restore(c)
    \/ \E c \in Slots : Observe(c)

Spec == Init /\ [][Next]_vars

----------------------------------------------------------------------------
(* Overlapping use: calls of the two facades in flight together *)

RaceOps == {"getClients", "getEntries", "deleteClient"}

RaceArgs(op) ==
    IF op = "getEntries"
    THEN {[id |-> Undefined,
           params |-> [start_date |-> Undefined, end_date |-> Undefined,
                       updated_at |-> Undefined, billable |-> Undefined]],
          [id |-> Undefined,
           params |-> [start_date |-> Undefined, end_date |-> Undefined,
                       updated_at |-> Str(<<"2025-01-01">>),
                       billable |-> Undefined]]}
    ELSE ArgsFor(op)

RaceResponses ==
    {[failed |-> TRUE, status |-> 0], [failed |-> FALSE, status |-> 200],
     [failed |-> FALSE, status |-> 500]}

RaceBodies(op, a) ==
    [kind : {"array", "object"}, items : {<<GoodItem(Resource(op, a).shape)>>}]

NextRace ==
    \/ \E r \in {Null, ManualRef} : SetGlobalConfig(r)
    \/ \E c \in Slots :
          /\ FreeSlot(c)
          /\ \E i \in Inst, op \in RaceOps :
                \E a \in RaceArgs(op) : Begin(c, i, op, a)
    \/ \E c \in Slots, resp \in RaceResponses : FetchSettle(c, resp)
    \/ \E c \in Slots :
          /\ calls[c].pc = "json"
          /\ \E body \in RaceBodies(calls[c].op, calls[c].args) :
                JsonSettle(c, body)
    \/ \E c \in Slots : Restore(c)
    \/ \E c \in Slots : Observe(c)

SpecRace == Init /\ [][NextRace]_vars

----------------------------------------------------------------------------
(* Construction: every kind of value in every field *)

CtorInst == {"A"}

CtorVals ==
    {JsNull, Num(<<"123">>), Bool(<<"true">>), Str(<<>>), Str(<<" ", " ">>),
     Str(<<"a">>), Str(<<" ", "b", " ">>)}

CtorKeys == {"subscriptionId", "apiToken", "userAgent"}

CtorInputs ==
    LET plain == UNION {[D -> CtorVals] : D \in SUBSET CtorKeys}
    IN  plain \cup {With(o, "extra", Str(<<"x">>)) : o \in plain}

CtorArgs(op) == ArgsFor(op)

InitCtor ==
    /\ inputObj = [i \in Inst |-> NoObj]
    /\ ownCfg = [i \in Inst |-> NoObj]
    /\ clients = [i \in Inst |-> NoClient]
    /\ given = [i \in Inst |-> NoObj]
    /\ ctorError = [i \in Inst |-> <<>>]
    /\ globalConfig = Null
    /\ calls = [c \in Slots |-> IdleCall]

NextCtor ==
    \/ \E i \in CtorInst, config \in CtorInputs : Construct(i, config)
    \/ \E i \in CtorInst, f \in CtorKeys : MutateInput(i, f, Str(<<"x">>))
    \/ /\ AllIdle
       /\ \E c \in Slots, i \in CtorInst, op \in {"getClients", "createClient"} :
             \E a \in CtorArgs(op) : Begin(c, i, op, a)
    \/ \E c \in Slots, resp \in RaceResponses : FetchSettle(c, resp)
    \/ \E c \in Slots :
          /\ calls[c].pc = "json"
          /\ \E body \in RaceBodies(calls[c].op, calls[c].args) :
                JsonSettle(c, body)
    \/ \E c \in Slots : Restore(c)
    \/ \E c \in Slots : Observe(c)

SpecCtor == InitCtor /\ [][NextCtor]_vars

----------------------------------------------------------------------------
(* Construction twice: two evaluations of `new TickClient`, with calls and  *)
(* changes of the cell in between                                           *)

TwiceVals ==
    {Num(<<"123">>), Str(<<" ", " ">>), Str(<<"a">>), Str(<<" ", "b", " ">>)}

TwiceInputs == UNION {[D -> TwiceVals] : D \in SUBSET CtorKeys}

NextTwice ==
    \/ \E i \in Inst, config \in TwiceInputs : Construct(i, config)
    \/ \E r \in {Null, ManualRef} : SetGlobalConfig(r)
    \/ /\ AllIdle
       /\ \E c \in Slots, i \in Inst :
             \E a \in ArgsFor("getClients") : Begin(c, i, "getClients", a)
    \/ \E c \in Slots, resp \in RaceResponses : FetchSettle(c, resp)
    \/ \E c \in Slots :
          /\ calls[c].pc = "json"
          /\ \E body \in RaceBodies(calls[c].op, calls[c].args) :
                JsonSettle(c, body)
    \/ \E c \in Slots : Restore(c)
    \/ \E c \in Slots : Observe(c)

SpecTwice == InitCtor /\ [][NextTwice]_vars

----------------------------------------------------------------------------
(* Progress: one invocation at a time.  The transport may never answer, so  *)
(* fetch has no fairness; a response that has arrived has a body that can   *)
(* be read, and the continuation of a settled promise is always run by the  *)
(* event loop, so the reading of the body and withConfig's finally clause   *)
(* are weakly fair.                                                         *)

NextLive ==
    \/ \E r \in {Null, ManualRef} : SetGlobalConfig(r)
    \/ /\ AllIdle
       /\ \E c \in Slots, i \in Inst, op \in RaceOps :
             \E a \in RaceArgs(op) : Begin(c, i, op, a)
    \/ \E c \in Slots, resp \in RaceResponses : FetchSettle(c, resp)
    \/ \E c \in Slots :
          /\ calls[c].pc = "json"
          /\ \E body \in RaceBodies(calls[c].op, calls[c].args) :
                JsonSettle(c, body)
    \/ \E c \in Slots : Restore(c)
    \/ \E c \in Slots : Observe(c)

SpecLive ==
    /\ Init /\ [][NextLive]_vars
    /\ \A c \in Slots :
          /\ WF_vars(calls[c].pc = "json"
                     /\ \E body \in RaceBodies(calls[c].op, calls[c].args) :
                           JsonSettle(c, body))
          /\ WF_vars(Restore(c))

----------------------------------------------------------------------------
(* Properties *)

FacadeCalls == {c \in Slots : Busy(c) /\ calls[c].inst # Direct}

\* a request whose URL and headers carry the three values of cfg
BuiltFrom(req, cfg) ==
    LET prefix == <<"https://www.tickspot.com", "/">> \o cfg.subscriptionId.v
                  \o <<"/api/", "v2", "/">>
    IN  /\ Len(req.url) > Len(prefix)
        /\ SubSeq(req.url, 1, Len(prefix)) = prefix
        /\ req.headers.Authorization = <<"Token token=">> \o cfg.apiToken.v
        /\ req.headers.UserAgent = cfg.userAgent.v

\* C1: a facade call made while no other call is in flight and left
\* undisturbed has, once it has settled in whichever way and before its
\* caller sees the result or the error, put the process-wide configuration
\* back to the value it held before the call began.
C1_RestoredBeforeObserved ==
    \A c \in FacadeCalls :
        calls[c].pc = "settled" /\ calls[c].alone
            => globalConfig = calls[c].pre

\* C1, its case: a call that began over a manually set configuration has
\* failed in the transport and has settled, its caller not yet resumed.
C1_Witness ==
    \E c \in FacadeCalls :
        /\ calls[c].pc = "settled" /\ calls[c].alone
        /\ calls[c].pre = ManualRef
        /\ calls[c].outcome = Thrown(FetchFailedMsg)

\* C2: in sequential use every request of a facade call carries the
\* subscription id, the token and the user agent of the instance whose method
\* was called, and not those of the other instance.
C2_SequentialRequestsUseOwnConfig ==
    \A c \in FacadeCalls :
        calls[c].nfetch > 0 =>
            /\ BuiltFrom(calls[c].req, given[calls[c].inst])
            /\ \A j \in Inst \ {calls[c].inst} :
                  ~BuiltFrom(calls[c].req, given[j])

\* C2, its case: a request of B goes out from a cell that held another
\* configuration before the call.
C2_Witness ==
    \E c \in FacadeCalls :
        /\ calls[c].inst = "B" /\ calls[c].pc = "fetch"
        /\ calls[c].pre = ManualRef
        /\ calls[c].req.url = <<"https://www.tickspot.com", "/", "b", "/api/",
                                "v2", "/", "clients.json">>

\* C3 (as amended): also when calls of different instances overlap, in
\* every interleaving, the request of a call is the one built from the
\* configuration of the instance it was made on: URL and headers are built in
\* the step that sets the cell, before the call first suspends.
C3_RequestBuiltFromOwnConfig ==
    \A c \in FacadeCalls :
        calls[c].nfetch > 0 =>
            /\ BuiltFrom(calls[c].req, given[calls[c].inst])
            /\ \A j \in Inst \ {calls[c].inst} :
                  ~BuiltFrom(calls[c].req, given[j])

\* the calls that began while a call of another instance was in flight and
\* that are in flight together with it
Overlaps ==
    {p \in Slots \X Slots :
        /\ FacadeInFlight(p[1]) /\ FacadeInFlight(p[2])
        /\ calls[p[2]].pair.st = "open" /\ calls[p[2]].pair.slot = p[1]
        /\ calls[p[1]].inst # calls[p[2]].inst}

\* C3, its case: B's call began while A's was in flight, and the requests
\* of both are out.
C3_Witness ==
    \E p \in Overlaps :
        /\ calls[p[1]].inst = "A" /\ calls[p[1]].pc = "fetch"
        /\ calls[p[2]].inst = "B" /\ calls[p[2]].pc = "fetch"

\* C3 (as stated): when B's call begins while A's call is in flight, the
\* request of A's call has its URL or its headers built from B's
\* configuration.
C3_Original ==
    \A p \in Overlaps :
        calls[p[1]].nfetch > 0 =>
            LET req == calls[p[1]].req
                other == given[calls[p[2]].inst]
            IN  \/ SubSeq(req.url, 3, 3) = other.subscriptionId.v
                \/ req.headers.Authorization
                       = <<"Token token=">> \o other.apiToken.v
                \/ req.headers.UserAgent = other.userAgent.v

\* C4 (as amended): when two facade calls overlap and the one that started
\* first settles first, then once both have settled the process-wide
\* configuration has not been restored by the pair but is left equal to the
\* configuration of the first-started instance; it differs from the value
\* held before the first call began unless the cell already referred to that
\* instance's configuration then.
C4_LeftAtFirstStarted ==
    \A c \in FacadeCalls :
        calls[c].pc = "settled" /\ calls[c].pair.st = "firstSettled"
            => /\ globalConfig = clients[calls[c].pair.inst]
               /\ calls[c].pair.pre # clients[calls[c].pair.inst]
                     => globalConfig # calls[c].pair.pre

\* C4, its case: A's call started first and settled first, B's call has
\* settled after it, and the cell was empty before A's call.
C4_Witness ==
    \E c \in FacadeCalls :
        /\ calls[c].pc = "settled" /\ calls[c].pair.st = "firstSettled"
        /\ calls[c].inst = "B" /\ calls[c].pair.inst = "A"
        /\ calls[c].pair.pre = Null

\* C4 (as stated): in that case the process-wide configuration is not the
\* value held before the first call began and equals the first-started
\* instance's configuration.
C4_Original ==
    \A c \in FacadeCalls :
        calls[c].pc = "settled" /\ calls[c].pair.st = "firstSettled"
            => /\ globalConfig # calls[c].pair.pre
               /\ globalConfig = clients[calls[c].pair.inst]

\* a value that is a string with something other than whitespace in it
GoodField(x) ==
    x.t = "string" /\ \E k \in 1..Len(x.v) : x.v[k] \notin WhiteSpace

\* the message names the field with the fixed text
Mentions(msg, f) ==
    \E k \in 1..(Len(msg) - 1) :
        msg[k] = f /\ msg[k + 1] = " is required and must be a non-empty string"

\* C5: construction succeeds exactly when subscriptionId, apiToken and
\* userAgent are each a string that is not empty after trimming; otherwise it
\* throws, no facade exists and no call is made on it.
C5_ConstructedIffAllFieldsGood ==
    \A i \in Inst :
        /\ clients[i] # NoClient =>
              /\ ctorError[i] = <<>>
              /\ \A f \in CtorKeys : GoodField(given[i][f])
        /\ ctorError[i] # <<>> =>
              /\ clients[i] = NoClient
              /\ \E f \in CtorKeys : ~GoodField(Get(inputObj[i], f))
              /\ \A c \in Slots : calls[c].inst # i

\* C5, its case: a configuration whose subscriptionId is only whitespace
\* has been rejected.
C5_Witness ==
    \E i \in Inst :
        /\ ctorError[i] # <<>> /\ clients[i] = NoClient
        /\ inputObj[i] = [subscriptionId |-> Str(<<" ", " ">>),
                          apiToken |-> Str(<<"a">>),
                          userAgent |-> Str(<<" ", "b", " ">>)]

\* C6: the one error of a rejected construction names every violated
\* field, and no valid field, each with the fixed text.
C6_EveryViolatedFieldNamed ==
    \A i \in Inst :
        ctorError[i] # <<>> =>
            /\ Head(ctorError[i]) = "Invalid TickClient configuration: "
            /\ \A f \in CtorKeys :
                  Mentions(ctorError[i], f) <=> ~GoodField(Get(inputObj[i], f))
            /\ Cardinality({k \in 1..Len(ctorError[i]) : ctorError[i][k] =
                              " is required and must be a non-empty string"})
                 = Cardinality({f \in CtorKeys : ~GoodField(Get(inputObj[i], f))})

\* C6, its case: a rejection that names subscriptionId and userAgent and
\* does not name the valid apiToken.
C6_Witness ==
    \E i \in Inst :
        /\ Mentions(ctorError[i], "subscriptionId")
        /\ Mentions(ctorError[i], "userAgent")
        /\ ~Mentions(ctorError[i], "apiToken")
        /\ Get(inputObj[i], "userAgent") = Num(<<"123">>)

\* C7: the facade holds an object of its own with exactly the three fields
\* and the values given at construction; a later change of the caller's
\* object changes neither it nor the URL and headers of a request.
C7_OwnCopyOfThreeFields ==
    \A i \in Inst :
        clients[i] # NoClient =>
            /\ DOMAIN Deref(clients[i]) = CtorKeys
            /\ Deref(clients[i]) = given[i]
            /\ \A c \in FacadeCalls :
                  calls[c].inst = i /\ calls[c].nfetch > 0
                      => BuiltFrom(calls[c].req, given[i])

\* C7, its case: the caller's object had an extra property and has since
\* been changed in all three fields, and a request of the facade is out.
C7_Witness ==
    \E c \in FacadeCalls :
        /\ calls[c].pc = "fetch"
        /\ "extra" \in DOMAIN inputObj[calls[c].inst]
        /\ \A f \in CtorKeys : inputObj[calls[c].inst][f] = Str(<<"x">>)
        /\ given[calls[c].inst].subscriptionId = Str(<<" ", "b", " ">>)

DirectCalls == {c \in Slots : Busy(c) /\ calls[c].inst = Direct}

\* a filter field that carries a date
Supplied(x) == x.t = "string" /\ x.v # <<>>

\* the filter gives both dates, or gives updated_at
FilterAccepted(params) ==
    \/ Supplied(Get(params, "start_date")) /\ Supplied(Get(params, "end_date"))
    \/ Supplied(Get(params, "updated_at"))

FilterMsg == <<"Either start_date and end_date OR updated_at must be provided">>

\* C8 (as amended): a request helper or resource function called while no
\* configuration is active makes no transport call, leaves the cell empty and
\* fails with the configuration error, except that an entries listing whose
\* filter does not pass its precondition fails with that validation error
\* first.
C8_NoConfigNoRequest ==
    \A c \in DirectCalls :
        calls[c].pre = Null =>
            /\ calls[c].pc = "returned"
            /\ calls[c].nfetch = 0 /\ calls[c].req = NoReq
            /\ calls[c].alone => globalConfig = Null
            /\ calls[c].outcome =
                  IF calls[c].op \in EntryListOps
                     /\ ~FilterAccepted(calls[c].args.params)
                  THEN Thrown(FilterMsg)
                  ELSE Thrown(ConfigErrorMsg)

\* C8, its case: getClients called with an empty cell has failed.
C8_Witness ==
    \E c \in DirectCalls :
        /\ calls[c].pre = Null /\ calls[c].op = "getClients"
        /\ calls[c].outcome = Thrown(ConfigErrorMsg)
        /\ globalConfig = Null

\* C8 (as stated): every request helper and resource function called while
\* no configuration is active fails with the configuration error, makes no
\* transport call and leaves the cell empty.
C8_Original ==
    \A c \in DirectCalls :
        calls[c].pre = Null =>
            /\ calls[c].nfetch = 0
            /\ calls[c].alone => globalConfig = Null
            /\ calls[c].outcome = Thrown(ConfigErrorMsg)

\* C9: each of the four entries listings, called with a configuration
\* active, fails with the fixed validation message and makes no transport call
\* when the filter gives neither both dates nor updated_at, and makes its
\* transport call when the filter gives both dates or gives updated_at.
C9_EntriesPrecondition ==
    \A c \in Slots :
        Busy(c) /\ calls[c].op \in EntryListOps
        /\ (calls[c].inst # Direct \/ calls[c].pre # Null) =>
            IF FilterAccepted(calls[c].args.params)
            THEN calls[c].nfetch = 1 /\ calls[c].req.method = "GET"
            ELSE /\ calls[c].nfetch = 0 /\ calls[c].req = NoReq
                 /\ calls[c].outcome = Thrown(FilterMsg)

\* C9, its case: getTaskEntries of a facade with only start_date has been
\* rejected and has settled.
C9_Witness ==
    \E c \in FacadeCalls :
        /\ calls[c].op = "getTaskEntries" /\ calls[c].pc = "settled"
        /\ calls[c].args.params =
              [start_date |-> Str(<<"2025-01-01">>), end_date |-> Undefined,
               updated_at |-> Undefined, billable |-> Undefined]
        /\ calls[c].outcome = Thrown(FilterMsg)
        /\ calls[c].nfetch = 0

\* C10: createProject with parameters that do not have the declared
\* create-project shape (owner_id missing, say) fails with a validation error
\* and makes no transport call.
C10_Original ==
    \A c \in FacadeCalls :
        calls[c].op = "createProject"
        /\ ~Conforms(CreateProject, calls[c].args.params) =>
            /\ calls[c].nfetch = 0
            /\ calls[c].pc \in {"returned", "settled"}
            /\ ~calls[c].outcome.ok

\* C11: a facade call makes at most one transport call over its whole life,
\* whatever the status, the transport or the response validation did, and it
\* has made exactly one as soon as it began, the instance's configuration
\* being active, unless it is an entries listing whose filter was rejected.
C11_AtMostOneTransportCall ==
    \A c \in FacadeCalls :
        /\ calls[c].nfetch <= 1
        /\ (calls[c].op \notin EntryListOps
              \/ FilterAccepted(calls[c].args.params)) => calls[c].nfetch = 1
        /\ calls[c].nfetch = 0 => calls[c].resp = NoResp

\* C11, its case: updateClient got status 500, has failed and has settled
\* with its one transport call.
C11_Witness ==
    \E c \in FacadeCalls :
        /\ calls[c].op = "updateClient" /\ calls[c].pc = "settled"
        /\ calls[c].resp = [failed |-> FALSE, status |-> 500]
        /\ ~calls[c].outcome.ok
        /\ calls[c].nfetch = 1

\* the message has the text piece in it
Contains(msg, piece) == \E k \in 1..Len(msg) : msg[k] = piece

\* the kinds of failure, told apart by their messages: the code throws Error
\* for each of them
IsForbidden(msg) == Contains(msg, "administrators")

IsConflict(msg) ==
    Contains(msg, "associated projects") \/ Contains(msg, "without any entries")

\* the generic failure: it ends with the numeric status and the status text
IsRequestError(msg, status) ==
    /\ Len(msg) > 4
    /\ SubSeq(msg, Len(msg) - 3, Len(msg))
          = <<": ">> \o StatusStr(status) \o <<" ">> \o StatusText(status)
    /\ ~IsForbidden(msg) /\ ~IsConflict(msg)

\* the calls that have received a response, with a status
Answered ==
    {c \in Slots : Busy(c) /\ calls[c].resp # NoResp /\ ~calls[c].resp.failed}

\* C12: the outcome of deleteClient is decided by the response status: 403
\* fails with the message about administrators, 406 with the message about
\* associated projects, any other status outside 200..299 with the generic
\* failure carrying that status, and a success status resolves with no value.
C12_DeleteClientByStatus ==
    \A c \in Answered :
        calls[c].op = "deleteClient" =>
            LET st == calls[c].resp.status
                o == calls[c].outcome
            IN  /\ calls[c].pc \in {"returned", "settled"}
                /\ calls[c].body = NoJson
                /\ st = 403 => ~o.ok /\ IsForbidden(o.msg)
                                /\ ~IsConflict(o.msg)
                /\ st = 406 => ~o.ok /\ IsConflict(o.msg)
                                /\ Contains(o.msg, "associated projects")
                                /\ ~IsForbidden(o.msg)
                /\ st \notin {403, 406} /\ ~ResponseOk(st)
                      => ~o.ok /\ IsRequestError(o.msg, st)
                /\ ResponseOk(st) => o = Returned(UndefinedVal)

\* C12, its case: deleteClient of a facade got status 406 and has failed
\* with the message about associated projects.
C12_Witness ==
    \E c \in Answered \cap FacadeCalls :
        /\ calls[c].op = "deleteClient" /\ calls[c].resp.status = 406
        /\ calls[c].pc = "settled"
        /\ Contains(calls[c].outcome.msg, "associated projects")

\* the operations documented as restricted to administrators
AdminOps ==
    {"createClient", "updateClient", "deleteClient", "createProject",
     "updateProject", "deleteProject", "createTask", "updateTask",
     "deleteTask", "getDeletedUsers", "createUser"}

\* what the message of each of them says only administrators can do
Privilege(op) ==
    CASE op = "createClient" -> " can create clients"
      [] op = "updateClient" -> " can update clients"
      [] op = "deleteClient" -> " can delete clients"
      [] op = "createProject" -> " can create projects"
      [] op = "updateProject" -> " can update projects"
      [] op = "deleteProject" -> " can delete projects"
      [] op = "createTask" -> " can create tasks"
      [] op = "updateTask" -> " can update tasks"
      [] op = "deleteTask" -> " can delete tasks"
      [] op = "getDeletedUsers" -> " can access deleted users"
      [] op = "createUser" -> " can create users"
      [] OTHER -> ""

\* C13 (as amended): status 403 fails with an operation-specific message
\* naming the privilege exactly for the eleven operations restricted to
\* administrators; for every other operation (every read but
\* getDeletedUsers, and createEntry, updateEntry, deleteEntry) status 403
\* fails with the generic failure carrying 403 and the status text.
C13_ForbiddenWhereMapped ==
    \A c \in Answered :
        calls[c].resp.status = 403 =>
            LET o == calls[c].outcome
            IN  /\ ~o.ok /\ calls[c].body = NoJson
                /\ IF calls[c].op \in AdminOps
                   THEN /\ IsForbidden(o.msg)
                        /\ o.msg[Len(o.msg)] = Privilege(calls[c].op)
                        /\ ~IsRequestError(o.msg, 403)
                   ELSE IsRequestError(o.msg, 403)

\* C13, its case: createEntry got status 403 and has failed with the
\* generic failure.
C13_Witness ==
    \E c \in Answered :
        /\ calls[c].op = "createEntry" /\ calls[c].resp.status = 403
        /\ calls[c].outcome.msg =
              <<"Failed to create entry", ": ", "403", " ", "Forbidden">>

\* C13 (as stated): for every operation status 403 fails with a message
\* naming the privilege required, not with the generic failure.
C13_Original ==
    \A c \in Answered :
        calls[c].resp.status = 403 =>
            /\ ~calls[c].outcome.ok
            /\ IsForbidden(calls[c].outcome.msg)
            /\ ~IsRequestError(calls[c].outcome.msg, 403)

\* the deletions with a constraint the remote side reports as 406
ConflictOps == {"deleteClient", "deleteTask"}

\* C14: status 406 fails with the fixed message of the violated constraint
\* for deleteClient (the client still has projects) and deleteTask (the task
\* still has entries) only; for every other operation, deleteProject and
\* deleteEntry among them, status 406 - like every other status outside
\* 200..299 that the operation does not map - fails with the generic failure
\* carrying the numeric status and the status text.
C14_ConflictOnlyOnClientAndTask ==
    \A c \in Answered :
        LET st == calls[c].resp.status
            o == calls[c].outcome
        IN  /\ st = 406 /\ calls[c].op = "deleteClient"
                  => ~o.ok /\ Contains(o.msg, "associated projects")
                     /\ ~IsRequestError(o.msg, st)
            /\ st = 406 /\ calls[c].op = "deleteTask"
                  => ~o.ok /\ Contains(o.msg, "without any entries")
                     /\ ~IsRequestError(o.msg, st)
            /\ (~ResponseOk(st)
                /\ ~(st = 406 /\ calls[c].op \in ConflictOps)
                /\ ~(st = 403 /\ calls[c].op \in AdminOps))
                  => (~o.ok /\ IsRequestError(o.msg, st))

\* C14, its case: deleteProject got status 406 and has failed with the
\* generic failure.
C14_Witness ==
    \E c \in Answered :
        /\ calls[c].op = "deleteProject" /\ calls[c].resp.status = 406
        /\ calls[c].outcome.msg =
              <<"Failed to delete project with ID ", "42", ": ", "406", " ",
                "Not Acceptable">>

\* the body is what the operation declares it returns: an array of objects
\* of its shape for a listing, one object of its shape otherwise
BodyConforms(op, a, body) ==
    LET fn == Resource(op, a)
    IN  /\ body.kind = (IF fn.list THEN "array" ELSE "object")
        /\ \A k \in 1..Len(body.items) : Conforms(fn.shape, body.items[k])

\* C15: an operation other than a deletion returns a value only after a
\* success status and a body of its declared shape, and what it returns has
\* the declared fields only; a success response whose body is not of the
\* shape fails with the response-validation failure, and after a status
\* outside 200..299 the call fails and the body is never read.
C15_ValueOnlyAfterValidation ==
    \A c \in Slots :
        Busy(c) /\ calls[c].op \in Ops \ DeleteOps =>
            LET cl == calls[c]
                shape == Resource(cl.op, cl.args).shape
            IN  /\ cl.outcome.ok =>
                      /\ ~cl.resp.failed /\ ResponseOk(cl.resp.status)
                      /\ BodyConforms(cl.op, cl.args, cl.body)
                      /\ cl.outcome.value.kind = cl.body.kind
                      /\ Len(cl.outcome.value.items) = Len(cl.body.items)
                      /\ \A k \in 1..Len(cl.outcome.value.items) :
                            /\ DOMAIN cl.outcome.value.items[k] \subseteq DOMAIN shape
                            /\ Conforms(shape, cl.outcome.value.items[k])
                /\ (cl.body.kind \in {"array", "object"}
                    /\ ~BodyConforms(cl.op, cl.args, cl.body))
                      => cl.outcome = Thrown(ZodErrorMsg)
                /\ cl.body # NoJson =>
                      ~cl.resp.failed /\ ResponseOk(cl.resp.status)
                /\ (c \in Answered /\ ~ResponseOk(cl.resp.status))
                      => (/\ cl.pc \in {"returned", "settled"}
                          /\ ~cl.outcome.ok /\ cl.body = NoJson)

\* C15, its case: getProject got status 200 and an object lacking a
\* declared field, and has failed with the response-validation failure.
C15_Witness ==
    \E c \in Answered :
        /\ calls[c].op = "getProject" /\ calls[c].resp.status = 200
        /\ calls[c].body.kind = "object"
        /\ "updated_at" \notin DOMAIN calls[c].body.items[1]
        /\ calls[c].outcome = Thrown(ZodErrorMsg)

\* C16: the record getTask returns has a string id and the record getClient
\* returns has a number id, each the id of the response body as it came; a
\* body whose id has the other type is rejected by the response validation
\* and nothing is returned.
C16_IdTypeKept ==
    \A c \in Slots :
        Busy(c) /\ calls[c].op \in {"getTask", "getClient"} =>
            LET cl == calls[c]
                idType == IF cl.op = "getTask" THEN "string" ELSE "number"
            IN  /\ cl.outcome.ok =>
                      /\ cl.outcome.value.kind = "object"
                      /\ cl.outcome.value.items[1].id.t = idType
                      /\ cl.outcome.value.items[1].id = cl.body.items[1].id
                /\ (cl.body.kind = "object"
                    /\ Get(cl.body.items[1], "id").t # idType)
                      => cl.outcome = Thrown(ZodErrorMsg)

\* C16, its case: getTask got a body whose id is the number 42 and has
\* failed with the response-validation failure.
C16_Witness ==
    \E c \in FacadeCalls :
        /\ calls[c].op = "getTask" /\ calls[c].args.id = Str(<<"42">>)
        /\ calls[c].body.kind = "object"
        /\ Get(calls[c].body.items[1], "id") = Num(<<"42">>)
        /\ calls[c].outcome = Thrown(ZodErrorMsg)

\* the configuration that was active when the call built its request: the
\* instance's own for a facade call, the one in the cell for a direct call
ActiveAt(c) ==
    IF calls[c].inst # Direct THEN Deref(clients[calls[c].inst])
    ELSE Deref(calls[c].pre)

\* C17: every request carries Authorization "Token token=" followed by the
\* active configuration's API token and User-Agent equal to its user agent,
\* and carries the JSON content type exactly when its verb is POST or PUT.
C17_RequestHeaders ==
    \A c \in Slots :
        Busy(c) /\ calls[c].nfetch > 0 =>
            LET h == calls[c].req.headers
            IN  /\ h.Authorization
                      = <<"Token token=">> \o ActiveAt(c).apiToken.v
                /\ h.UserAgent = ActiveAt(c).userAgent.v
                /\ calls[c].req.method \in {"GET", "POST", "PUT", "DELETE"}
                /\ h.ContentType =
                      IF calls[c].req.method \in {"POST", "PUT"}
                      THEN <<"application/json; charset=utf-8">>
                      ELSE <<>>

\* C17, its case: a DELETE request of facade B is out, with B's token and
\* user agent and no content type.
C17_Witness ==
    \E c \in FacadeCalls :
        /\ calls[c].pc = "fetch" /\ calls[c].inst = "B"
        /\ calls[c].req.method = "DELETE"
        /\ calls[c].req.headers =
              [Authorization |-> <<"Token token=", "tb">>,
               UserAgent |-> <<"ub">>, ContentType |-> <<>>]

\* C18: the URL of every request is the fixed origin, the active
\* configuration's subscription id, "api", "v2" and the operation's path,
\* joined by "/"; with the configuration {acme, tok, App/1.0} the clients
\* listing issues GET <origin>/acme/api/v2/clients.json with Authorization
\* "Token token=tok" and no content type, and on status 200 with an array of
\* one conforming object it returns that array.
C18_RequestUrl ==
    \A c \in Slots :
        Busy(c) /\ calls[c].nfetch > 0 =>
            LET cl == calls[c]
            IN  /\ cl.req.url =
                      <<"https://www.tickspot.com", "/">>
                      \o ActiveAt(c).subscriptionId.v
                      \o <<"/api/", "v2", "/">>
                      \o Resource(cl.op, cl.args).path
                /\ (cl.op = "getClients" /\ cl.inst = "A") =>
                      /\ cl.req.method = "GET"
                      /\ cl.req.url =
                            <<"https://www.tickspot.com", "/", "acme", "/api/",
                              "v2", "/", "clients.json">>
                      /\ cl.req.headers.Authorization = <<"Token token=", "tok">>
                      /\ cl.req.headers.UserAgent = <<"App/1.0">>
                      /\ cl.req.headers.ContentType = <<>>
                      /\ cl.req.body = NoBody
                      /\ (cl.resp = [failed |-> FALSE, status |-> 200]
                          /\ cl.body.kind = "array" /\ Len(cl.body.items) = 1
                          /\ Conforms(Client, cl.body.items[1]))
                            => cl.outcome = Returned(ArrayVal(
                                 <<Strip(Client, cl.body.items[1])>>))
                      /\ (cl.resp = [failed |-> FALSE, status |-> 200]
                          /\ cl.body = [kind |-> "array",
                                        items |-> <<GoodItem(Client)>>])
                            => cl.outcome.value.items = cl.body.items

\* C18, its case: the clients listing of the facade configured with acme
\* got status 200 and an array of one client and has returned it.
C18_Witness ==
    \E c \in FacadeCalls :
        /\ calls[c].op = "getClients" /\ calls[c].inst = "A"
        /\ given["A"].subscriptionId = Str(<<"acme">>)
        /\ calls[c].resp = [failed |-> FALSE, status |-> 200]
        /\ calls[c].body = [kind |-> "array", items |-> <<GoodItem(Client)>>]
        /\ calls[c].outcome = Returned(ArrayVal(<<GoodItem(Client)>>))

\* `new TickClient` has been evaluated for this instance name
Attempted(i) == clients[i] # NoClient \/ ctorError[i] # <<>>

OutcomeUnder(op, a, cfg, resp, body) ==
    LET st == Start(op, a, cfg)
        o == StatusCheck(op, a, resp)
    IN  IF ~st.issued THEN st.outcome
        ELSE IF o # NoOutcome THEN o
        ELSE Parse(op, a, body)

\* C20: what a facade method gives its caller is what the wrapped resource
\* function gives when run with the instance's configuration active and the
\* same answers of the transport: the same value, or the same failure with
\* the same message; its request is the one the function builds.
C20_FacadeYieldsWrappedOutcome ==
    \A c \in FacadeCalls :
        LET cl == calls[c]
            own == clients[cl.inst]
        IN  /\ cl.req = Start(cl.op, cl.args, own).req
            /\ cl.pc = "settled" =>
                  cl.outcome = OutcomeUnder(cl.op, cl.args, own, cl.resp, cl.body)

\* C20, its case: deleteClient of a facade got status 500 and its caller is
\* about to see the failure of the resource function.
C20_Witness ==
    \E c \in FacadeCalls :
        /\ calls[c].op = "deleteClient" /\ calls[c].pc = "settled"
        /\ calls[c].resp = [failed |-> FALSE, status |-> 500]
        /\ calls[c].outcome =
              Thrown(<<"Failed to delete client with ID ", "42", ": ", "500",
                       " ", "Internal Server Error">>)

\* the positions a call can move to from a position
StepsAfter(pc) ==
    CASE pc = "idle" -> {"fetch", "returned"}
      [] pc = "fetch" -> {"json", "returned"}
      [] pc = "json" -> {"returned"}
      [] pc = "returned" -> {"settled", "idle"}
      [] OTHER -> {"idle"}

\* C21: every step of a facade call is the next one of this order: swap of
\* the cell together with the building of URL and headers from it and the
\* one transport call; the status check; the parse of the body; the restore
\* of the captured value; the caller's receipt of the outcome.  Once the
\* transport call is out, what the call does is decided by the answers of
\* the transport alone and not by what the cell holds then.
C21_StepOrder ==
    [][\A c \in Slots :
          (calls'[c] # calls[c] /\ (calls[c].inst # Direct
                                   \/ calls'[c].inst # Direct)) =>
              LET old == calls[c]
                  new == calls'[c]
              IN  /\ new.pc # old.pc => new.pc \in StepsAfter(old.pc)
                  /\ (old.pc = "idle" /\ new.pc # "idle") =>
                        /\ globalConfig' = clients[new.inst]
                        /\ new.orig = globalConfig
                        /\ new.resp = NoResp /\ new.body = NoJson
                        /\ new.pc = "fetch" =>
                              /\ new.nfetch = 1
                              /\ BuiltFrom(new.req, given[new.inst])
                  /\ (old.pc # "idle" /\ new.pc # "idle") =>
                        /\ new.req = old.req /\ new.nfetch = old.nfetch
                        /\ new.orig = old.orig
                  /\ (old.pc = "fetch" /\ new.pc # "fetch") =>
                        /\ new.resp # NoResp /\ new.body = NoJson
                        /\ new.outcome = StatusCheck(old.op, old.args, new.resp)
                        /\ globalConfig' = globalConfig
                  /\ (old.pc = "json" /\ new.pc # "json") =>
                        /\ ~old.resp.failed /\ ResponseOk(old.resp.status)
                        /\ new.body # NoJson
                        /\ new.outcome = Parse(old.op, old.args, new.body)
                        /\ globalConfig' = globalConfig
                  /\ (old.pc = "returned" /\ new.pc # "returned") =>
                        /\ new.pc = "settled"
                        /\ globalConfig' = old.orig
                        /\ new.outcome = old.outcome
                  /\ (old.pc = "settled" /\ new.pc # "settled") =>
                        /\ new.pc = "idle"
                        /\ globalConfig' = globalConfig
      ]_vars

\* C21, its case: a facade call whose cell the application set while the
\* call was under way has gone through the status check and the parse,
\* has restored the captured value and holds the parsed value for its caller.
C21_Witness ==
    \E c \in FacadeCalls :
        /\ calls[c].pc = "settled" /\ ~calls[c].alone
        /\ calls[c].orig = ManualRef /\ globalConfig = ManualRef
        /\ calls[c].op = "getClient"
        /\ calls[c].body.kind = "object" /\ calls[c].outcome.ok

\* C22: once the transport has answered a facade call, with any status or
\* with a failure, the call settles and the cell gets the captured value
\* back; while the transport has not answered, the call has not settled, it
\* leaves that position only by an answer, and the cell, unless the
\* application or another call sets it, stays at the instance's
\* configuration.
C22_SettlesWhenTransportSettles ==
    /\ \A c \in Slots :
          (calls[c].inst # Direct /\ calls[c].pc \in {"json", "returned"}
           /\ calls[c].resp # NoResp)
             ~> (calls[c].pc = "settled" /\ calls[c].resp # NoResp
                 /\ globalConfig = calls[c].orig)
    /\ [](\A c \in FacadeCalls :
            calls[c].pc = "fetch" =>
                /\ calls[c].resp = NoResp /\ calls[c].outcome = NoOutcome
                /\ calls[c].alone => globalConfig = clients[calls[c].inst])
    /\ [][\A c \in Slots :
            (calls[c].pc = "fetch" /\ calls'[c].pc # "fetch")
                => calls'[c].resp # NoResp]_vars

\* C22, its case: the transport call of a facade call failed, and the call
\* has settled with the cell back at the manually set configuration.
C22_Witness ==
    \E c \in FacadeCalls :
        /\ calls[c].pc = "settled" /\ calls[c].resp.failed
        /\ calls[c].orig = ManualRef /\ globalConfig = ManualRef

\* C23: each of the four deletions decides from the status alone: it never
\* waits for a body, and on a success status it resolves with no value
\* without a body having been read or validated.
C23_DeleteIsStatusOnly ==
    \A c \in Slots :
        Busy(c) /\ calls[c].op \in DeleteOps =>
            /\ calls[c].pc # "json"
            /\ calls[c].body = NoJson
            /\ (c \in Answered /\ ResponseOk(calls[c].resp.status)) =>
                  /\ calls[c].pc \in {"returned", "settled"}
                  /\ calls[c].outcome = Returned(UndefinedVal)

\* C23, its case: deleteEntry got status 204 and has resolved with no value.
C23_Witness ==
    \E c \in FacadeCalls :
        /\ calls[c].op = "deleteEntry" /\ calls[c].pc = "settled"
        /\ calls[c].resp = [failed |-> FALSE, status |-> 204]
        /\ calls[c].body = NoJson
        /\ calls[c].outcome = Returned(UndefinedVal)

\* the fields of a filter that are not undefined
DefinedFields(params) == {f \in DOMAIN params : params[f] # Undefined}

\* the URL has the pair key=text in its query string
HasPair(url, key, text) ==
    \E k \in 1..Len(url) :
        /\ url[k] = key /\ k > 1 /\ url[k - 1] \in {"?", "&"}
        /\ k + 1 + Len(text) <= Len(url)
        /\ url[k + 1] = "="
        /\ SubSeq(url, k + 2, k + 1 + Len(text)) = text
        /\ (k + 1 + Len(text) = Len(url) \/ url[k + 2 + Len(text)] = "&")

FilterOps == EntryListOps \cup {"getProjects", "getClosedProjects"}

\* C24: the query string of every listing that takes a filter has one
\* key=value pair for each field of the filter that is not undefined, false
\* and 0 included as "false" and "0", and no other pair.
C24_Original ==
    \A c \in Slots :
        Busy(c) /\ calls[c].op \in FilterOps /\ calls[c].nfetch > 0 =>
            LET params == calls[c].args.params
                url == calls[c].req.url
            IN  /\ \A f \in DefinedFields(params) :
                      HasPair(url, f, UrlEncode(JsString(params[f])))
                /\ Cardinality({k \in 1..Len(url) : url[k] = "="})
                      = Cardinality(DefinedFields(params))

\* the same for the four entries listings alone
EntriesQueryHasEveryDefinedField ==
    \A c \in Slots :
        Busy(c) /\ calls[c].op \in EntryListOps /\ calls[c].nfetch > 0 =>
            LET params == calls[c].args.params
                url == calls[c].req.url
            IN  /\ \A f \in DefinedFields(params) :
                      HasPair(url, f, UrlEncode(JsString(params[f])))
                /\ Cardinality({k \in 1..Len(url) : url[k] = "="})
                      = Cardinality(DefinedFields(params))

\* the calls whose request has been handed to the transport
Issued == {c \in Slots : Busy(c) /\ calls[c].nfetch > 0}

\* C25: the body of createUser is the parameters under the key "user", the
\* body of createProject is the parameters under the key "project", and the
\* bodies of createTask, createClient and createEntry are the parameters
\* themselves under no key.
C25_WrappingKeys ==
    \A c \in Issued :
        LET b == calls[c].req.body
            params == calls[c].args.params
        IN  /\ calls[c].op = "createUser" =>
                  b.present /\ b.key = "user" /\ b.params = params
            /\ calls[c].op = "createProject" =>
                  b.present /\ b.key = "project" /\ b.params = params
            /\ calls[c].op \in {"createTask", "createClient", "createEntry"} =>
                  b.present /\ b.key = "" /\ b.params = params

\* a user creation is in flight, its three fields under "user"
C25_Witness ==
    \E c \in Issued :
        /\ calls[c].op = "createUser"
        /\ calls[c].req.body.key = "user"
        /\ DOMAIN calls[c].req.body.params
              = {"first_name", "last_name", "email"}

CreateOps ==
    {"createUser", "createClient", "createProject", "createTask",
     "createEntry"}

UpdateOps == {"updateClient", "updateProject", "updateTask", "updateEntry"}

\* the verb of each kind of operation
VerbOf(op) ==
    IF op \in CreateOps THEN "POST"
    ELSE IF op \in UpdateOps THEN "PUT"
    ELSE IF op \in DeleteOps THEN "DELETE"
    ELSE "GET"

\* C26: every request carries the verb of its operation's kind, GET for a
\* list or a get, POST for a create, PUT for an update, DELETE for a delete,
\* and carries a body exactly when the verb is POST or PUT.
C26_VerbPerKind ==
    \A c \in Issued :
        /\ calls[c].req.method = VerbOf(calls[c].op)
        /\ calls[c].req.body.present
              <=> calls[c].req.method \in {"POST", "PUT"}

\* an update is in flight with PUT and a body
C26_Witness ==
    \E c \in Issued :
        /\ calls[c].op = "updateClient"
        /\ calls[c].req.method = "PUT"
        /\ calls[c].req.body.present

\* the configurations a request could have been built from
ConfigSources == {Deref(clients[i]) : i \in Inst} \cup {ManualCfg}

\* the request takes its subscription id, its token and its user agent from
\* cfg and takes none of the three from another configuration
EntirelyFrom(req, cfg) ==
    /\ BuiltFrom(req, cfg)
    /\ \A other \in ConfigSources \ {cfg} :
          /\ SubSeq(req.url, 3, 2 + Len(other.subscriptionId.v))
                # other.subscriptionId.v
          /\ req.headers.Authorization # <<"Token token=">> \o other.apiToken.v
          /\ req.headers.UserAgent # other.userAgent.v

\* C27: in every interleaving of overlapping facade calls the request of a
\* call is built entirely from the configuration of the instance the call
\* was made on: the step that begins the call sets the cell and builds the
\* whole request, and no later step of the call changes the request or
\* makes its outcome depend on what the cell holds by then.
C27_BuiltInOneStep ==
    /\ [](\A c \in FacadeCalls :
            calls[c].nfetch > 0 =>
                EntirelyFrom(calls[c].req, Deref(clients[calls[c].inst])))
    /\ [][\A c \in Slots :
            /\ (~Busy(c) /\ calls'[c].pc = "fetch") =>
                  /\ globalConfig' = clients[calls'[c].inst]
                  /\ EntirelyFrom(calls'[c].req, Deref(globalConfig'))
            /\ (FacadeInFlight(c) /\ calls'[c].pc # "idle") =>
                  /\ calls'[c].req = calls[c].req
                  /\ calls[c].pc = "fetch" /\ calls'[c].pc # "fetch" =>
                        calls'[c].outcome
                          = StatusCheck(calls[c].op, calls[c].args,
                                        calls'[c].resp)
                  /\ calls[c].pc = "json" /\ calls'[c].pc # "json" =>
                        calls'[c].outcome
                          = Parse(calls[c].op, calls[c].args, calls'[c].body)]_vars

\* C27, its case: A's call is pending, the application has set the cell
\* itself since, and B's call has begun over that and is pending too, each
\* request with its own instance's token
C27_Witness ==
    \E c, d \in FacadeCalls :
        /\ calls[c].inst = "A" /\ calls[c].pc \in {"fetch", "json"}
        /\ calls[d].inst = "B" /\ calls[d].pc = "fetch"
        /\ calls[d].pre = ManualRef
        /\ globalConfig = clients["B"]
        /\ calls[c].req.headers.Authorization = <<"Token token=", "tok">>
        /\ calls[d].req.headers.Authorization = <<"Token token=", "tb">>

\* C28: when facade calls overlap and settle in the reverse of the order in
\* which they began, so that the call that began with no other call in
\* flight is the last one to settle, the step in which it settles leaves the
\* process-wide configuration equal to the value it held before that first
\* call began, whatever the calls in between did to it.
C28_NestedCallsRestore ==
    [][\A c \in Slots :
          ( /\ calls[c].pc = "returned" /\ calls'[c].pc = "settled"
            /\ calls[c].root
            /\ \A d \in Slots \ {c} : ~FacadeInFlight(d) )
          => globalConfig' = calls[c].pre]_vars

\* C28, its case: A's call began over a configuration the application had
\* set, B's call began while A's was in flight and settled first, leaving
\* the cell at A's configuration, and A's call has settled after it.
C28_Witness ==
    \E c, d \in FacadeCalls :
        /\ calls[c].inst = "A" /\ calls[c].root /\ calls[c].pc = "settled"
        /\ calls[c].pre = ManualRef
        /\ calls[d].inst = "B" /\ calls[d].pc = "settled"
        /\ calls[d].pair.st = "open" /\ calls[d].pair.slot = c
        /\ calls[d].orig = clients["A"]
        /\ globalConfig = ManualRef

\* the references a facade call can leave in the cell: an instance's stored
\* configuration or what a call in progress captured
CellTargets ==
    {clients[i] : i \in Inst} \cup {calls[c].orig : c \in FacadeCalls}

\* C29: the configuration an instance stored at construction is never
\* changed afterwards: whatever calls are made on it or on other instances,
\* successful or failed, one at a time or overlapping, its subscriptionId,
\* apiToken and userAgent stay the values given to the constructor; a step
\* of a call changes at most which configuration the process-wide cell
\* refers to.
C29_StoredConfigFrozen ==
    /\ [](\A i \in Inst :
            clients[i] # NoClient =>
                /\ clients[i] = OwnRef(i)
                /\ \A k \in 1..Len(ConfigFields) :
                      Deref(clients[i])[ConfigFields[k]]
                        = given[i][ConfigFields[k]])
    /\ [][(\E c \in Slots : calls'[c].pc # calls[c].pc) =>
            /\ ownCfg' = ownCfg /\ clients' = clients
            /\ inputObj' = inputObj
            /\ globalConfig' # globalConfig =>
                  globalConfig' \in CellTargets]_vars

\* C29, its case: B's call overlapped a call of A, failed, and settled
\* last, leaving the cell at A's configuration; both stored configurations
\* are what the constructors were given.
C29_Witness ==
    \E c \in FacadeCalls :
        /\ calls[c].inst = "B" /\ calls[c].pc = "settled"
        /\ calls[c].pair.st = "firstSettled" /\ calls[c].pair.inst = "A"
        /\ ~calls[c].outcome.ok
        /\ globalConfig = clients["A"]
        /\ Deref(clients["A"]) = CopyConfig(InputOf("A"))
        /\ Deref(clients["B"]) = CopyConfig(InputOf("B"))

\* a date field that is missing or is the empty string
MissingOrEmpty(params, f) == Get(params, f) \in {Undefined, Str(<<>>)}

DateFields == {"start_date", "end_date", "updated_at"}

\* C30: the precondition of the four entries listings takes an empty
\* string for a date that was not supplied: a filter whose updated_at is
\* missing or empty and whose start_date or end_date is missing or empty is
\* rejected with the fixed message before any transport call, also when all
\* three fields are defined; and in a request that passed the precondition a
\* date field that is defined and empty still has its pair, with an empty
\* value, in the query string.
C30_EmptyDatesNotSupplied ==
    \A c \in Slots :
        Busy(c) /\ calls[c].op \in EntryListOps =>
            LET params == calls[c].args.params
            IN  /\ ( /\ MissingOrEmpty(params, "updated_at")
                      /\ \/ MissingOrEmpty(params, "start_date")
                         \/ MissingOrEmpty(params, "end_date") )
                    => ( /\ calls[c].nfetch = 0 /\ calls[c].req = NoReq
                         /\ calls[c].outcome = Thrown(FilterMsg) )
                /\ calls[c].nfetch > 0 =>
                      \A f \in DateFields :
                          Get(params, f) = Str(<<>>) =>
                              HasPair(calls[c].req.url, f, <<>>)

\* C30, its case: a facade's getEntries with all three dates defined as
\* empty strings has been rejected without a request.
C30_Witness ==
    \E c \in FacadeCalls :
        /\ calls[c].op = "getEntries"
        /\ \A f \in DateFields : calls[c].args.params[f] = Str(<<>>)
        /\ calls[c].outcome = Thrown(FilterMsg)
        /\ calls[c].nfetch = 0

\* the other half of the case: empty dates beside a real updated_at went out
\* as start_date=&end_date=&updated_at=2025-01-01
EmptyDatesAppended ==
    \E c \in FacadeCalls :
        /\ calls[c].op = "getEntries" /\ calls[c].inst = "A"
        /\ calls[c].req.url =
              <<"https://www.tickspot.com", "/", "acme", "/api/", "v2", "/",
                "entries.json", "?", "start_date", "=", "&", "end_date", "=",
                "&", "updated_at", "=", "2025-01-01">>

=============================================================================
